---------------------------- MODULE Spec2Model ----------------------------
(***************************************************************************)
(* A model of the talkinghands gesture-driven speech synthesizer:          *)
(*   - GlottalSource   (excitation source: tone/noise mix)                 *)
(*   - EnergyEnvelope  (retriggerable attack/decay/release gain)           *)
(*   - AudioEngine     (signal graph, presets, per-mode updates)           *)
(*   - handleHandData  (the per-tick articulation mapper of main.ts)       *)
(*                                                                         *)
(* Numbers.  The program computes in floating point.  The model uses      *)
(* fixed-point integers: gains, closures and levels are in thousandths     *)
(* (One = 1.0), times are in milliseconds, frequencies in Hz, pinch        *)
(* distances in 1/10000, palm coordinates in hundredths.                   *)
(***************************************************************************)
EXTENDS Integers, Sequences, FiniteSets, TLC

VARIABLES
    glottal,    \* a GlottalSource instance
    envelope,   \* an EnergyEnvelope instance
    now,        \* audioContext.currentTime, in ms
    lastOp,     \* the last operation performed (a history variable)
    audio,      \* the AudioEngine instance
    mapper,     \* module-level state of main.ts
    calls       \* the engine calls made by the last event handler

vars == <<glottal, envelope, now, lastOp, audio, mapper, calls>>

-----------------------------------------------------------------------------
(* Fixed-point arithmetic *)

One == 10 * 100

Min(a, b) == IF a < b THEN a ELSE b
Max(a, b) == IF a > b THEN a ELSE b

\* Math.max(lo, Math.min(hi, x))
Clamp(x, lo, hi) == Max(lo, Min(hi, x))

\* a * b for two values in thousandths
Mul(a, b) == (a * b) \div One

\* floor of the square root, by bisection
RECURSIVE SqrtBetween(_, _, _)
SqrtBetween(n, lo, hi) ==
    IF lo >= hi THEN lo
    ELSE LET mid == (lo + hi + 1) \div 2
         IN  IF mid * mid <= n THEN SqrtBetween(n, mid, hi)
                               ELSE SqrtBetween(n, lo, mid - 1)

ISqrt(n) == SqrtBetween(n, 0, Min(n, 46340))

\* x^n for x in thousandths, rounded down to thousandths at every product
RECURSIVE PowN(_, _)
PowN(x, n) == IF n = 0 THEN One ELSE Mul(x, PowN(x, n - 1))

\* x^(1/2^k) for x in thousandths: k square roots in a row
RECURSIVE SqrtK(_, _)
SqrtK(x, k) == IF k = 0 THEN x ELSE ISqrt(SqrtK(x, k - 1) * One)

\* the product of x^(1/2^k) over the k in ks: x to a binary fraction
RECURSIVE ProdRoots(_, _)
ProdRoots(x, ks) ==
    IF ks = <<>> THEN One ELSE Mul(SqrtK(x, Head(ks)), ProdRoots(x, Tail(ks)))

\* Math.pow on [0, 1] for the exponents the program uses; a fractional
\* exponent is taken to ten binary places:
\*   0.8 ~ 1/2 + 1/4 + 1/32 + 1/64 + 1/512 + 1/1024
\*   0.6 ~ 1/2 + 1/16 + 1/32 + 1/256 + 1/512
\*   0.3 ~ 1/4 + 1/32 + 1/64 + 1/512 + 1/1024
Pow15(x) == Mul(x, SqrtK(x, 1))
Pow08(x) == ProdRoots(x, <<1, 2, 5, 6, 9, 10>>)
Pow06(x) == ProdRoots(x, <<1, 4, 5, 8, 9>>)
Pow13(x) == Mul(x, ProdRoots(x, <<2, 5, 6, 9, 10>>))

-----------------------------------------------------------------------------
(* Parameter writes.  Every write to an AudioParam is logged as a pair     *)
(* <<parameter, method>>; the log of an object holds the writes of the     *)
(* operation in progress.                                                  *)

RampMethods == {"linearRampToValueAtTime", "exponentialRampToValueAtTime",
                "setTargetAtTime"}
StepMethods == {"setValueAtTime", "value"}

W(p, m) == <<p, m>>


ClearLog(o) == [o EXCEPT !.log = {}]

-----------------------------------------------------------------------------
(* GlottalSource: two always-running generators (tone, pink noise) summed  *)
(* through voicedGain and noiseGain into outputGain.  The gain fields hold *)
(* the target of the last write to each gain.                              *)

GlottalSource_new ==
    [ voicingAmount |-> One,  breathiness |-> 0,
      voicedGain |-> One,     noiseGain |-> 0,   outputGain |-> One,
      frequency |-> 150,      log |-> {} ]

\* the mix with the base noise term (1 - voicingAmount) left out
updateMix_noBaseNoise(g) ==
    [g EXCEPT !.voicedGain = g.voicingAmount,
              !.noiseGain  = (g.breathiness * 3) \div 10,
              !.log = @ \cup {W("glottal.voicedGain", "setTargetAtTime"),
                              W("glottal.noiseGain", "setTargetAtTime")}]

\* the mix with the breathiness scaling the tone as well
updateMix_breathOnTone(g) ==
    [g EXCEPT !.voicedGain = Max(0, g.voicingAmount - (g.breathiness * 3) \div 10),
              !.noiseGain  = (One - g.voicingAmount) + (g.breathiness * 3) \div 10,
              !.log = @ \cup {W("glottal.voicedGain", "setTargetAtTime"),
                              W("glottal.noiseGain", "setTargetAtTime")}]

updateMix(g) ==
    LET voicedLevel == g.voicingAmount
        baseNoise   == One - g.voicingAmount
        totalNoise  == baseNoise + (g.breathiness * 3) \div 10
    IN  [g EXCEPT !.voicedGain = voicedLevel,
                  !.noiseGain  = totalNoise,
                  !.log = @ \cup {W("glottal.voicedGain", "setTargetAtTime"),
                                  W("glottal.noiseGain", "setTargetAtTime")}]

setVoicingAmount(g, amount) ==
    updateMix([g EXCEPT !.voicingAmount = Max(0, Min(One, amount))])

setBreathiness(g, amount) ==
    updateMix([g EXCEPT !.breathiness = Max(0, Min(One, amount))])

\* voicedOsc is never null between construction and stop()
GlottalSource_setPitch(g, frequency) ==
    [g EXCEPT !.frequency = frequency,
              !.log = @ \cup {W("glottal.frequency", "linearRampToValueAtTime")}]

setOutputLevel(g, level) ==
    [g EXCEPT !.outputGain = level,
              !.log = @ \cup {W("glottal.outputGain", "setTargetAtTime")}]

-----------------------------------------------------------------------------
(* Inputs of the excitation-source specification: amounts on a grid of     *)
(* quarters that reaches below 0 and above 1, so that clamping happens.    *)

MaxAmountK == 5
AmountStep == One \div 4
Amounts == { k * AmountStep : k \in -1 .. MaxAmountK }
Pitches == {75, 150, 300}

\* lastOp in the excitation-source specification: the last two operations
\* and the last raw argument given to each of the two mix setters.
GlottalOp(op, arg, g) ==
    [ op |-> op, arg |-> arg, prevOp |-> lastOp.op, prevArg |-> lastOp.arg,
      v |-> IF op = "setVoicingAmount" THEN arg ELSE lastOp.v,
      b |-> IF op = "setBreathiness" THEN arg ELSE lastOp.b,
      toneBefore |-> g.voicedGain ]

-----------------------------------------------------------------------------
(* The automation timeline of one AudioParam, as EnergyEnvelope uses it.   *)
(* A parameter is [base, ev]: the value it holds when no event applies,    *)
(* and its scheduled events in time order.  An event is [k, v, t, tc]:     *)
(* method, value, time (the end time of a ramp, the start time of the      *)
(* others) and time constant.  A ramp runs from the previous event's time  *)
(* and value to its own; setTargetAtTime approaches its target until the   *)
(* next event.                                                             *)

Event(k, v, t, tc) == [k |-> k, v |-> v, t |-> t, tc |-> tc]

IsRamp(e) == e.k \in {"linearRampToValueAtTime", "exponentialRampToValueAtTime"}

\* the number of leading events of ev with time <= t
RECURSIVE CountUpTo(_, _)
CountUpTo(ev, t) ==
    IF ev = <<>> \/ Head(ev).t > t THEN 0 ELSE 1 + CountUpTo(Tail(ev), t)

\* events are kept in time order; an event goes after those of the same time
InsertEvent(ev, e) ==
    LET n == CountUpTo(ev, e.t)
    IN  SubSeq(ev, 1, n) \o <<e>> \o SubSeq(ev, n + 1, Len(ev))

\* cancelScheduledValues(t): removes the events with time >= t
RECURSIVE cancelScheduledValues(_, _)
cancelScheduledValues(ev, t) ==
    IF ev = <<>> THEN <<>>
    ELSE IF Head(ev).t >= t THEN cancelScheduledValues(Tail(ev), t)
    ELSE <<Head(ev)>> \o cancelScheduledValues(Tail(ev), t)

\* a cancel that removes nothing
cancelScheduledValues_none(ev, t) == ev

LinInterp(V0, V1, T0, T1, t) == V0 + ((V1 - V0) * (t - T0)) \div (T1 - T0)

\* V0 * (V1/V0)^(num/den), 0 <= num < den, by bisection of the exponent:
\* each step replaces one end by the geometric mean of the two.
RECURSIVE GeoInterp(_, _, _, _, _)
GeoInterp(a, b, num, den, depth) ==
    IF depth = 0 \/ num = 0 THEN a
    ELSE IF 2 * num >= den
         THEN GeoInterp(ISqrt(a * b), b, 2 * num - den, den, depth - 1)
         ELSE GeoInterp(a, ISqrt(a * b), 2 * num, den, depth - 1)

\* an exponential ramp holds V0 when V0 is zero or of the other sign
ExpInterp(V0, V1, T0, T1, t) ==
    IF V0 <= 0 \/ V1 <= 0 THEN V0
    ELSE GeoInterp(V0, V1, t - T0, T1 - T0, 6)

\* e^(-dt/tc) in thousandths: 0.368 per whole time constant
RECURSIVE DecayFactor(_, _)
DecayFactor(dt, tc) ==
    IF dt >= 7 * tc THEN 0
    ELSE IF dt >= tc THEN Mul(368, DecayFactor(dt - tc, tc))
    ELSE GeoInterp(One, 368, dt, tc, 6)

Approach(V0, target, dt, tc) == target + ((V0 - target) * DecayFactor(dt, tc)) \div One

RECURSIVE ValueOf(_, _, _)
RECURSIVE StartVal(_, _, _)
\* the value event n of ev leaves at its own time
StartVal(base, ev, n) ==
    IF n = 0 THEN base
    ELSE IF ev[n].k = "setTargetAtTime"
         THEN ValueOf(base, SubSeq(ev, 1, n - 1), ev[n].t)
         ELSE ev[n].v

\* the parameter's value at time t
ValueOf(base, ev, t) ==
    LET n  == CountUpTo(ev, t)
        T0 == IF n = 0 THEN 0 ELSE ev[n].t
    IN  IF n < Len(ev) /\ IsRamp(ev[n + 1])
        THEN IF ev[n + 1].k = "linearRampToValueAtTime"
             THEN LinInterp(StartVal(base, ev, n), ev[n + 1].v, T0, ev[n + 1].t, t)
             ELSE ExpInterp(StartVal(base, ev, n), ev[n + 1].v, T0, ev[n + 1].t, t)
        ELSE IF n = 0 THEN base
        ELSE IF ev[n].k = "setTargetAtTime"
             THEN Approach(StartVal(base, ev, n), ev[n].v, t - ev[n].t, ev[n].tc)
             ELSE ev[n].v

\* Events before a setValueAtTime that has taken effect no longer bear on
\* the value: the model forgets them.
RECURSIVE LastSetValue(_, _, _)
LastSetValue(ev, t, i) ==
    IF i = 0 THEN 0
    ELSE IF ev[i].k = "setValueAtTime" /\ ev[i].t <= t THEN i
    ELSE LastSetValue(ev, t, i - 1)

Forget(ev, t) ==
    LET i == LastSetValue(ev, t, Len(ev))
    IN  IF i <= 1 THEN ev ELSE SubSeq(ev, i, Len(ev))

-----------------------------------------------------------------------------
(* EnergyEnvelope: one gain node driven by trigger / releaseNote /         *)
(* setLevel.  attack, decay, release are in ms.                            *)

TriggerFloor == 10      \* 0.01, the end value of the decay ramp
ReleaseFloor == 1       \* 0.001, the end value of the release ramp
SetLevelTimeConstant == 50

EnergyEnvelope_new ==
    [ attack |-> 10, decay |-> 300, sustain |-> 0, release |-> 200,
      isTriggered |-> FALSE,
      gain |-> [base |-> 0, ev |-> <<>>],
      log |-> {} ]

\* gainNode.gain.value read at time t
GainValue(e, t) == ValueOf(e.gain.base, e.gain.ev, t)

\* a trigger whose attack starts from zero instead of the current level
trigger_fromZero(e, velocity, t) ==
    LET kept == cancelScheduledValues(e.gain.ev, t)
        ev1  == InsertEvent(kept, Event("setValueAtTime", 0, t, 0))
        ev2  == InsertEvent(ev1, Event("linearRampToValueAtTime", velocity, t + e.attack, 0))
        ev3  == InsertEvent(ev2, Event("exponentialRampToValueAtTime", TriggerFloor,
                                       t + e.attack + e.decay, 0))
    IN  [e EXCEPT !.gain.ev = Forget(ev3, t),
                  !.isTriggered = TRUE,
                  !.log = @ \cup {W("envelope.gain", "cancelScheduledValues"),
                                  W("envelope.gain", "setValueAtTime"),
                                  W("envelope.gain", "linearRampToValueAtTime"),
                                  W("envelope.gain", "exponentialRampToValueAtTime")}]

\* a trigger whose decay ramp ends below zero
trigger_negativeFloor(e, velocity, t) ==
    LET cur  == GainValue(e, t)
        kept == cancelScheduledValues(e.gain.ev, t)
        ev1  == InsertEvent(kept, Event("setValueAtTime", cur, t, 0))
        ev2  == InsertEvent(ev1, Event("linearRampToValueAtTime", velocity, t + e.attack, 0))
        ev3  == InsertEvent(ev2, Event("linearRampToValueAtTime", 0 - TriggerFloor,
                                       t + e.attack + e.decay, 0))
    IN  [e EXCEPT !.gain.ev = Forget(ev3, t),
                  !.isTriggered = TRUE,
                  !.log = @ \cup {W("envelope.gain", "cancelScheduledValues"),
                                  W("envelope.gain", "setValueAtTime"),
                                  W("envelope.gain", "linearRampToValueAtTime")}]

trigger(e, velocity, t) ==
    LET cur  == GainValue(e, t)
        kept == cancelScheduledValues(e.gain.ev, t)
        ev1  == InsertEvent(kept, Event("setValueAtTime", cur, t, 0))
        ev2  == InsertEvent(ev1, Event("linearRampToValueAtTime", velocity, t + e.attack, 0))
        ev3  == InsertEvent(ev2, Event("exponentialRampToValueAtTime", TriggerFloor,
                                       t + e.attack + e.decay, 0))
    IN  [e EXCEPT !.gain.ev = Forget(ev3, t),
                  !.isTriggered = TRUE,
                  !.log = @ \cup {W("envelope.gain", "cancelScheduledValues"),
                                  W("envelope.gain", "setValueAtTime"),
                                  W("envelope.gain", "linearRampToValueAtTime"),
                                  W("envelope.gain", "exponentialRampToValueAtTime")}]

\* a release that ramps all the way down to zero
releaseNote_toZero(e, t) ==
    IF ~e.isTriggered THEN e
    ELSE LET cur  == GainValue(e, t)
             kept == cancelScheduledValues(e.gain.ev, t)
             ev1  == InsertEvent(kept, Event("setValueAtTime", cur, t, 0))
             ev2  == InsertEvent(ev1, Event("linearRampToValueAtTime", 0, t + e.release, 0))
         IN  [e EXCEPT !.gain.ev = Forget(ev2, t),
                       !.isTriggered = FALSE,
                       !.log = @ \cup {W("envelope.gain", "cancelScheduledValues"),
                                       W("envelope.gain", "setValueAtTime"),
                                       W("envelope.gain", "linearRampToValueAtTime")}]

\* a release that does not look at the triggered flag
releaseNote_always(e, t) ==
    LET cur  == GainValue(e, t)
        kept == cancelScheduledValues(e.gain.ev, t)
        ev1  == InsertEvent(kept, Event("setValueAtTime", cur, t, 0))
        ev2  == InsertEvent(ev1, Event("exponentialRampToValueAtTime", ReleaseFloor,
                                       t + e.release, 0))
    IN  [e EXCEPT !.gain.ev = Forget(ev2, t),
                  !.isTriggered = FALSE,
                  !.log = @ \cup {W("envelope.gain", "cancelScheduledValues"),
                                  W("envelope.gain", "setValueAtTime"),
                                  W("envelope.gain", "exponentialRampToValueAtTime")}]

releaseNote(e, t) ==
    IF ~e.isTriggered THEN e
    ELSE LET cur  == GainValue(e, t)
             kept == cancelScheduledValues(e.gain.ev, t)
             ev1  == InsertEvent(kept, Event("setValueAtTime", cur, t, 0))
             ev2  == InsertEvent(ev1, Event("exponentialRampToValueAtTime", ReleaseFloor,
                                            t + e.release, 0))
         IN  [e EXCEPT !.gain.ev = Forget(ev2, t),
                       !.isTriggered = FALSE,
                       !.log = @ \cup {W("envelope.gain", "cancelScheduledValues"),
                                       W("envelope.gain", "setValueAtTime"),
                                       W("envelope.gain", "exponentialRampToValueAtTime")}]

setLevel(e, level, t) ==
    [e EXCEPT !.gain.ev = InsertEvent(e.gain.ev,
                              Event("setTargetAtTime", level, t, SetLevelTimeConstant)),
              !.log = @ \cup {W("envelope.gain", "setTargetAtTime")}]

-----------------------------------------------------------------------------
(* AudioEngine.  The record holds, for every AudioParam the engine writes, *)
(* the target of the last write (gains and Q in thousandths, frequencies   *)
(* in Hz), the connections of the audio graph as a set of <<from, to>>     *)
(* pairs, and the objects the engine owns.                                 *)

PresetNames == {"raw", "clean", "fm", "bio", "articulatory", "monkey", "super-abstract"}

\* one write to the AudioParam p of the engine with method m
Put(a, p, v, m) == [a EXCEPT ![p] = v, !.log = @ \cup {W(p, m)}]

\* the connections made once in init and never undone
FixedEdges ==
    { <<"oralGain", "f1">>, <<"f1", "f2">>, <<"f2", "f3">>, <<"f3", "globalLpf">>,
      <<"globalLpf", "masterGain">>, <<"masterGain", "destination">>,
      <<"nasalFilter", "nasalGain">>, <<"nasalGain", "masterGain">>,
      <<"fricativeFilter", "fricativeGain">>, <<"fricativeGain", "masterGain">>,
      <<"noiseNode", "noiseGain">> }

\* the nodes setPreset disconnects before it wires the new preset
PresetSources ==
    { "mainOscillator", "modOscillator", "modGain", "noiseGain", "envelope",
      "glottalGain", "aspirationGain", "glottalSource", "superAbstract" }

\* node.disconnect(): every outgoing connection of the node is removed
disconnect(edges, node) == { e \in edges : e[1] # node }

RECURSIVE disconnectAll(_, _)
disconnectAll(edges, nodes) ==
    IF nodes = {} THEN edges
    ELSE LET n == CHOOSE x \in nodes : TRUE
         IN  disconnectAll(disconnect(edges, n), nodes \ {n})

\* SuperAbstractSynth: a synthesizer with a graph of its own behind outputNode
SuperAbstractSynth_new ==
    [ glottalSource |-> GlottalSource_new,
      noiseGain |-> 0, oralGain |-> One, nasalGain |-> 0, fricativeGain |-> 0,
      f1 |-> 350, f2 |-> 350, f3 |-> 350,
      fricativeType |-> "highpass", fricativeFrequency |-> 3000, fricativeQ |-> One,
      voiceSizeMultiplier |-> One,
      log |-> {} ]

\* the engine after construction: no audio context, every node null
AudioEngine_new ==
    [ audioContext |-> FALSE,
      currentPreset |-> "raw",
      voiceSizeMultiplier |-> One,
      mainOscillator |-> FALSE, modOscillator |-> FALSE, modGain |-> FALSE,
      oscType |-> "none",
      edges |-> {},
      masterGain |-> 0, oralGain |-> 0, nasalGain |-> 0, fricativeGain |-> 0,
      glottalGain |-> 0, aspirationGain |-> 0, noiseGain |-> 0,
      frequency |-> 0, modFrequency |-> 0, modGainValue |-> 0,
      lpfFrequency |-> 0,
      f1 |-> 0, f2 |-> 0, f3 |-> 0, q1 |-> 0, q2 |-> 0, q3 |-> 0,
      fricativeType |-> "none", fricativeFrequency |-> 0, fricativeQ |-> 0,
      energyEnvelope |-> EnergyEnvelope_new,
      glottalSource |-> GlottalSource_new,
      superAbstractSynth |-> SuperAbstractSynth_new,
      log |-> {} ]

\* the connections setPreset(name) makes after the cleanup
Routing(name) ==
    CASE name = "articulatory" ->
           { <<"mainOscillator", "glottalGain">>, <<"glottalGain", "envelope">>,
             <<"noiseGain", "aspirationGain">>, <<"aspirationGain", "envelope">>,
             <<"envelope", "oralGain">>, <<"envelope", "nasalFilter">>,
             <<"envelope", "fricativeFilter">> }
      [] name = "monkey" ->
           { <<"glottalSource", "oralGain">>, <<"glottalSource", "nasalFilter">>,
             <<"noiseGain", "fricativeFilter">> }
      [] name = "super-abstract" -> { <<"superAbstract", "masterGain">> }
      [] name = "bio" ->
           { <<"mainOscillator", "oralGain">>, <<"mainOscillator", "nasalFilter">>,
             <<"noiseGain", "fricativeFilter">>, <<"noiseGain", "f1">> }
      [] name = "clean" -> { <<"mainOscillator", "f1">> }
      [] name = "raw" -> { <<"mainOscillator", "f1">> }
      [] name = "fm" ->
           { <<"modOscillator", "modGain">>, <<"modGain", "mainOscillator.frequency">>,
             <<"mainOscillator", "f1">> }
      [] OTHER -> {}

\* a cleanup that forgets to disconnect the noise gain
cleanup_keepNoise(a) ==
    [a EXCEPT !.edges = disconnectAll(a.edges, PresetSources \ {"noiseGain"})]

\* step 1 of setPreset: stop and disconnect the sources of the old preset
cleanup(a) == [a EXCEPT !.edges = disconnectAll(a.edges, PresetSources)]

setPreset(a, name) ==
    IF ~a.audioContext THEN a
    ELSE
    LET a1 == [cleanup(a) EXCEPT !.currentPreset = name]
        \* 2. a new main oscillator at 150 Hz
        a2 == Put([a1 EXCEPT !.mainOscillator = TRUE], "frequency", 150, "value")
        wired == [a2 EXCEPT !.edges = @ \cup Routing(name)]
        resetGains(x) == Put(Put(Put(x, "oralGain", One, "value"),
                                 "nasalGain", 0, "value"),
                             "fricativeGain", 0, "value")
        lpf(x, f) == Put(x, "lpfFrequency", f, "setValueAtTime")
        master(x, v) == Put(x, "masterGain", v, "setValueAtTime")
    IN  CASE name = "articulatory" ->
               master(lpf(resetGains([wired EXCEPT !.oscType = "sawtooth"]), 20000), One)
          [] name = "monkey" ->
               master(lpf(resetGains(wired), 20000), 0)
          [] name = "super-abstract" ->
               lpf(master(wired, One), 20000)
          [] name = "bio" ->
               lpf([wired EXCEPT !.oscType = "sawtooth"], 20000)
          [] name = "clean" ->
               lpf([wired EXCEPT !.oscType = "triangle"], 1500)
          [] name = "raw" ->
               lpf([wired EXCEPT !.oscType = "sawtooth"], 5000)
          [] name = "fm" ->
               lpf(Put(Put([wired EXCEPT !.oscType = "sine", !.modOscillator = TRUE,
                                         !.modGain = TRUE],
                           "modFrequency", 225, "value"),
                       "modGainValue", 500, "value"), 8000)
          [] OTHER -> wired

init(a) ==
    IF a.audioContext THEN a
    ELSE setPreset(
           [a EXCEPT !.audioContext = TRUE,
                     !.masterGain = 0,
                     !.lpfFrequency = 20000,
                     !.oralGain = One,
                     !.q1 = 4 * One, !.q2 = 4 * One, !.q3 = 4 * One,
                     !.f1 = 350, !.f2 = 350, !.f3 = 350,
                     !.nasalGain = 0,
                     !.fricativeType = "highpass", !.fricativeFrequency = 3000,
                     !.fricativeQ = One,
                     !.fricativeGain = 0,
                     !.energyEnvelope = EnergyEnvelope_new,
                     !.glottalGain = One,
                     !.aspirationGain = 0,
                     !.glottalSource = GlottalSource_new,
                     !.superAbstractSynth = SuperAbstractSynth_new,
                     !.noiseGain = 0,
                     !.edges = FixedEdges],
           "raw")

\* a setVolume without the guard on the master gain and the audio context
setVolume_unguarded(a, volume) ==
    LET a1 == Put(a, "masterGain", volume, "linearRampToValueAtTime")
    IN  IF a.currentPreset = "clean"
        THEN Put(a1, "lpfFrequency", 500 + (volume * 2000) \div One,
                 "linearRampToValueAtTime")
        ELSE a1

setVolume(a, volume) ==
    IF ~a.audioContext THEN a
    ELSE LET a1 == Put(a, "masterGain", volume, "linearRampToValueAtTime")
         IN  IF a.currentPreset = "clean"
             THEN Put(a1, "lpfFrequency", 500 + (volume * 2000) \div One,
                      "linearRampToValueAtTime")
             ELSE a1

start(a) ==
    IF a.currentPreset # "bio" /\ a.currentPreset # "articulatory"
    THEN setVolume(a, One \div 2)
    ELSE a

setPitch(a, frequency) ==
    IF ~a.mainOscillator \/ ~a.audioContext THEN a
    ELSE LET a1 == Put(a, "frequency", frequency, "linearRampToValueAtTime")
         IN  IF a.currentPreset = "fm" /\ a.modOscillator
             THEN Put(a1, "modFrequency", (frequency * 3) \div 2, "linearRampToValueAtTime")
             ELSE a1

setNoise(a, volume) ==
    IF ~a.audioContext THEN a
    ELSE Put(a, "noiseGain", volume, "linearRampToValueAtTime")

setFormants(a, f1Freq, f2Freq, f3Freq) ==
    IF ~a.audioContext THEN a
    ELSE Put(Put(Put(Put(Put(Put(a,
             "f1", f1Freq, "linearRampToValueAtTime"),
             "f2", f2Freq, "linearRampToValueAtTime"),
             "f3", f3Freq, "linearRampToValueAtTime"),
             "q1", 15 * One, "setValueAtTime"),
             "q2", 12 * One, "setValueAtTime"),
             "q3", 8 * One, "setValueAtTime")

triggerEnergy(a, velocity, t) ==
    IF ~a.audioContext THEN a
    ELSE [a EXCEPT !.energyEnvelope = trigger(@, velocity, t)]

releaseEnergy(a, t) ==
    IF ~a.audioContext THEN a
    ELSE [a EXCEPT !.energyEnvelope = releaseNote(@, t)]

\* a setVoiceSize that stores its argument as given
setVoiceSize_unclamped(a, multiplier) == [a EXCEPT !.voiceSizeMultiplier = multiplier]

setVoiceSize(a, multiplier) ==
    [a EXCEPT !.voiceSizeMultiplier = Max((8 * One) \div 10, Min((12 * One) \div 10, multiplier))]

-----------------------------------------------------------------------------
(* The phoneme table.  noiseFreq in Hz; noiseBandwidth, oralGain,          *)
(* nasalGain and formantDamping in thousandths; burstDuration in ms.       *)

NoTarget == [f1 |-> 0, f2 |-> 0, f3 |-> 0]

\* a phoneme entry whose formant target is always set
Entry_withTarget(manner, place, isVoiced, noiseFreq, noiseBandwidth, oralGain, nasalGain, formantDamping, burstDuration) ==
    [ manner |-> manner, place |-> place, isVoiced |-> isVoiced,
      noiseFreq |-> noiseFreq, noiseBandwidth |-> noiseBandwidth,
      oralGain |-> oralGain, nasalGain |-> nasalGain,
      formantDamping |-> formantDamping, burstDuration |-> burstDuration,
      hasTarget |-> TRUE, targetFormants |-> [f1 |-> 300, f2 |-> 600, f3 |-> 2200] ]

Entry(manner, place, isVoiced, noiseFreq, noiseBandwidth, oralGain, nasalGain, formantDamping, burstDuration) ==
    [ manner |-> manner, place |-> place, isVoiced |-> isVoiced,
      noiseFreq |-> noiseFreq, noiseBandwidth |-> noiseBandwidth,
      oralGain |-> oralGain, nasalGain |-> nasalGain,
      formantDamping |-> formantDamping, burstDuration |-> burstDuration,
      hasTarget |-> FALSE, targetFormants |-> NoTarget ]

Approximant(place, oralGain, f1, f2, f3) ==
    [ Entry("approximant", place, TRUE, 0, 0, oralGain, 0, 0, 0)
        EXCEPT !.hasTarget = TRUE,
               !.targetFormants = [f1 |-> f1, f2 |-> f2, f3 |-> f3] ]

CONSONANTS ==
    [ m  |-> Entry("nasal", "bilabial", TRUE, 0, 0, 0, 1000, 500, 0),
      b  |-> Entry("stop", "bilabial", TRUE, 500, 1000, 0, 0, 800, 15),
      p  |-> Entry("stop", "bilabial", FALSE, 800, 1000, 0, 0, 800, 20),
      n  |-> Entry("nasal", "alveolar", TRUE, 0, 0, 0, 800, 400, 0),
      d  |-> Entry("stop", "alveolar", TRUE, 2500, 2000, 0, 0, 800, 15),
      t  |-> Entry("stop", "alveolar", FALSE, 3500, 2000, 0, 0, 800, 20),
      s  |-> Entry("fricative", "alveolar", FALSE, 6000, 4000, 100, 0, 200, 0),
      z  |-> Entry("fricative", "alveolar", TRUE, 6000, 4000, 100, 0, 200, 0),
      k  |-> Entry("stop", "velar", FALSE, 1500, 1500, 0, 0, 800, 25),
      g  |-> Entry("stop", "velar", TRUE, 1200, 1500, 0, 0, 800, 20),
      h  |-> Entry("fricative", "glottal", FALSE, 1000, 500, 800, 0, 0, 0),
      f  |-> Entry("fricative", "labiodental", FALSE, 4500, 1000, 100, 0, 300, 0),
      v  |-> Entry("fricative", "labiodental", TRUE, 4500, 1000, 100, 0, 300, 0),
      th |-> Entry("fricative", "dental", FALSE, 5000, 800, 100, 0, 300, 0),
      dh |-> Entry("fricative", "dental", TRUE, 5000, 800, 100, 0, 300, 0),
      sh |-> Entry("fricative", "postalveolar", FALSE, 2500, 3000, 200, 0, 400, 0),
      zh |-> Entry("fricative", "postalveolar", TRUE, 2500, 3000, 200, 0, 400, 0),
      ng |-> Entry("nasal", "velar", TRUE, 0, 0, 0, 1000, 600, 0),
      l  |-> Approximant("alveolar", 800, 360, 1100, 2800),
      r  |-> Approximant("alveolar", 700, 320, 1100, 1400),
      w  |-> Approximant("velar", 500, 300, 600, 2200),
      j  |-> Approximant("palatal", 600, 280, 2300, 3000) ]

-----------------------------------------------------------------------------
(* The mode updates of the engine.                                         *)

\* a guard that lets a mode update through whatever the active preset is
isActive_anyPreset(a, name) == a.audioContext

\* the guard that opens every mode update: the preset is the update's own
\* and the engine is initialised
isActive(a, name) == a.currentPreset = name /\ a.audioContext

\* an updateBio without the nasal side of the cross-fade
updateBio_noNasal(a, params) ==
    IF ~isActive(a, "bio") THEN a
    ELSE
    LET oralLevel  == Pow15(One - params.lipClosure)
        a1 == Put(Put(a, "oralGain", oralLevel, "setTargetAtTime"),
                  "nasalGain", 0, "setTargetAtTime")
        vol0 == IF params.tongueHeight > params.fricativeThreshold
                THEN ((params.tongueHeight - params.fricativeThreshold) * One)
                         \div (One - params.fricativeThreshold)
                ELSE 0
        fricativeVol == IF ~params.isVoiced THEN vol0 * 2 ELSE vol0
        a2 == Put(a1, "fricativeGain", fricativeVol, "setTargetAtTime")
    IN  IF params.plosiveTrigger
        THEN Put(Put(a2, "masterGain", One, "setValueAtTime"),
                 "masterGain", One \div 10, "exponentialRampToValueAtTime")
        ELSE a2

updateBio(a, params) ==
    IF ~isActive(a, "bio") THEN a
    ELSE
    LET oralLevel  == Pow15(One - params.lipClosure)
        nasalLevel == Pow08(params.lipClosure)
        a1 == Put(Put(a, "oralGain", oralLevel, "setTargetAtTime"),
                  "nasalGain", (nasalLevel * 7) \div 10, "setTargetAtTime")
        vol0 == IF params.tongueHeight > params.fricativeThreshold
                THEN ((params.tongueHeight - params.fricativeThreshold) * One)
                         \div (One - params.fricativeThreshold)
                ELSE 0
        fricativeVol == IF ~params.isVoiced THEN vol0 * 2 ELSE vol0
        a2 == Put(a1, "fricativeGain", fricativeVol, "setTargetAtTime")
    IN  IF params.plosiveTrigger
        THEN Put(Put(a2, "masterGain", One, "setValueAtTime"),
                 "masterGain", One \div 10, "exponentialRampToValueAtTime")
        ELSE a2

\* an updateArticulatory that applies the breath-onset trigger before the
\* plosive trigger
updateArticulatory_breathFirst(a, state, params, t) ==
    IF ~isActive(a, "articulatory") THEN a
    ELSE
    LET a1 == setFormants(a, params.f1, params.f2, params.f3)
        a2 == Put(Put(Put(Put(a1,
                  "oralGain", params.oralGain, "setTargetAtTime"),
                  "nasalGain", params.nasalGain, "setTargetAtTime"),
                  "fricativeGain", params.fricativeGain, "setTargetAtTime"),
                  "fricativeFrequency", params.fricativeFreq, "setTargetAtTime")
        a3 == Put(Put(a2, "glottalGain", params.voicingMix, "setTargetAtTime"),
                  "aspirationGain", One - params.voicingMix, "setTargetAtTime")
        a4 == IF state.energyTrigger
              THEN [a3 EXCEPT !.energyEnvelope =
                        trigger([@ EXCEPT !.attack = 20, !.decay = 300], One, t)]
              ELSE a3
    IN  IF state.plosiveTrigger
        THEN Put(Put([a4 EXCEPT !.energyEnvelope =
                           trigger([@ EXCEPT !.attack = 1, !.decay = 50], One, t)],
                     "aspirationGain", One, "setValueAtTime"),
                 "aspirationGain", Max(One - params.voicingMix, 0),
                 "exponentialRampToValueAtTime")
        ELSE a4

\* params is the result of ArticulatorSynth.mapStateToAcoustic(state)
updateArticulatory(a, state, params, t) ==
    IF ~isActive(a, "articulatory") THEN a
    ELSE
    LET a1 == setFormants(a, params.f1, params.f2, params.f3)
        a2 == Put(Put(Put(Put(a1,
                  "oralGain", params.oralGain, "setTargetAtTime"),
                  "nasalGain", params.nasalGain, "setTargetAtTime"),
                  "fricativeGain", params.fricativeGain, "setTargetAtTime"),
                  "fricativeFrequency", params.fricativeFreq, "setTargetAtTime")
        a3 == Put(Put(a2, "glottalGain", params.voicingMix, "setTargetAtTime"),
                  "aspirationGain", One - params.voicingMix, "setTargetAtTime")
        a4 == IF state.plosiveTrigger
              THEN Put(Put([a3 EXCEPT !.energyEnvelope =
                                 trigger([@ EXCEPT !.attack = 1, !.decay = 50], One, t)],
                           "aspirationGain", One, "setValueAtTime"),
                       \* Math.max(1 - voicingMix, 0.0001), below a thousandth
                       "aspirationGain", Max(One - params.voicingMix, 0),
                       "exponentialRampToValueAtTime")
              ELSE a3
    IN  IF state.energyTrigger
        THEN [a4 EXCEPT !.energyEnvelope =
                  trigger([@ EXCEPT !.attack = 20, !.decay = 300], One, t)]
        ELSE a4

\* the resolution of an engine that knows four places only
resolvePhoneme_fourPlaces(gesture) ==
    IF gesture.phoneme # "" THEN gesture.phoneme
    ELSE CASE gesture.type = "bilabial" -> "m"
           [] gesture.type = "alveolar" -> "s"
           [] gesture.type = "velar" -> "k"
           [] gesture.type = "glottal" -> "h"
           [] OTHER -> ""

\* the phoneme updateMonkey resolves for a gesture; "" when there is none
resolvePhoneme(gesture) ==
    IF gesture.phoneme # "" THEN gesture.phoneme
    ELSE CASE gesture.type = "bilabial" -> "m"
           [] gesture.type = "labiodental" -> "f"
           [] gesture.type = "dental" -> "th"
           [] gesture.type = "alveolar" -> "s"
           [] gesture.type = "postalveolar" -> "sh"
           [] gesture.type = "velar" -> "k"
           [] gesture.type = "glottal" -> "h"
           [] OTHER -> ""

\* consonant gains that let the oral gain go down to the entry's own and
\* give a fricative its full closure as noise
monkeyGains_noFloor(a, matched, params, closure) ==
    IF ~matched
    THEN [targetOralGain |-> One, targetNasalGain |-> 0, targetFricativeGain |-> 0]
    ELSE [ targetOralGain |-> One - Mul(closure, One - params.oralGain),
           targetNasalGain |-> Mul(closure, params.nasalGain),
           targetFricativeGain |-> IF params.manner = "fricative" THEN closure ELSE 0 ]

\* consonant gains that stay where the last tick left them when no entry is
\* matched
monkeyGains_latched(a, matched, params, closure) ==
    IF ~matched
    THEN [targetOralGain |-> a.oralGain, targetNasalGain |-> a.nasalGain,
          targetFricativeGain |-> a.fricativeGain]
    ELSE [ targetOralGain |-> One - Mul(closure, One - Max(params.oralGain, (2 * One) \div 10)),
           targetNasalGain |-> Mul(closure, params.nasalGain),
           targetFricativeGain |->
               IF params.manner = "fricative" THEN (closure * 8) \div 10 ELSE 0 ]

\* the three gain targets of a monkey tick: 1, 0 and 0 to start with, then
\* those of the matched entry params at the gesture's closure
monkeyGains(a, matched, params, closure) ==
    IF ~matched
    THEN [targetOralGain |-> One, targetNasalGain |-> 0, targetFricativeGain |-> 0]
    ELSE LET minOralGain == Max(params.oralGain, (2 * One) \div 10)
         IN  [ targetOralGain |-> One - Mul(closure, One - minOralGain),
               targetNasalGain |-> Mul(closure, params.nasalGain),
               targetFricativeGain |->
                   IF params.manner = "fricative" THEN (closure * 8) \div 10 ELSE 0 ]

updateMonkey(a, state) ==
    IF ~isActive(a, "monkey") THEN a
    ELSE
    LET voicingAmount == Pow06(state.breathAmount)
        outputLevel   == Pow13(state.breathAmount)
        breathiness   == PowN(Max(0, One - (state.breathAmount * 5) \div 2), 4)
        pitch         == (150 * state.pitchMultiplier) \div One
        gs == GlottalSource_setPitch(
                setBreathiness(
                  setOutputLevel(setVoicingAmount(a.glottalSource, voicingAmount),
                                 outputLevel),
                  breathiness),
                pitch)
        a1 == Put([a EXCEPT !.glottalSource = gs],
                  "masterGain", outputLevel, "setTargetAtTime")
        f1 == Mul(250 + (state.vowelHeight * 600) \div One, a.voiceSizeMultiplier)
        f2 == Mul(800 + (state.vowelBackness * 1600) \div One, a.voiceSizeMultiplier)
        f3 == Mul(2200 + (state.vowelBackness * 500) \div One, a.voiceSizeMultiplier)
        a2 == setFormants(a1, f1, f2, f3)
        gesture == state.consonant
        phoneme == IF gesture.type # "none" THEN resolvePhoneme(gesture) ELSE ""
        matched == phoneme # "" /\ phoneme \in DOMAIN CONSONANTS
        params  == CONSONANTS[IF matched THEN phoneme ELSE "m"]
        closure == gesture.closure
        blended(f, target) ==
            (f * (One - closure) + Mul(target, a.voiceSizeMultiplier) * closure) \div One
        a3 == IF matched /\ params.hasTarget
              THEN setFormants(a2, blended(f1, params.targetFormants.f1),
                                   blended(f2, params.targetFormants.f2),
                                   blended(f3, params.targetFormants.f3))
              ELSE a2
        gains == monkeyGains(a, matched, params, closure)
        a4 == IF matched /\ params.manner = "fricative"
              THEN Put(Put([a3 EXCEPT !.fricativeType = "bandpass"],
                           "fricativeFrequency", params.noiseFreq, "setTargetAtTime"),
                       "fricativeQ", params.noiseBandwidth, "setTargetAtTime")
              ELSE a3
        dampFactor == One - Mul(closure, params.formantDamping) \div 2
        a5 == IF matched /\ params.formantDamping > 0
              THEN Put(Put(Put(a4, "q1", 15 * dampFactor, "setTargetAtTime"),
                               "q2", 12 * dampFactor, "setTargetAtTime"),
                               "q3", 8 * dampFactor, "setTargetAtTime")
              ELSE a4
    IN  Put(Put(Put(a5, "oralGain", gains.targetOralGain, "setTargetAtTime"),
                    "nasalGain", gains.targetNasalGain, "setTargetAtTime"),
                    "fricativeGain", gains.targetFricativeGain, "setTargetAtTime")

\* a scan in which a later touch of equal closure replaces the earlier one
RECURSIVE bestTouch_lastWins(_, _)
bestTouch_lastWins(touches, best) ==
    IF touches = <<>> THEN best
    ELSE LET tch == Head(touches)
             closure == ((500 - tch.dist) * One) \div 500
         IN  IF tch.dist < 500 /\ closure >= best.maxClosure
             THEN bestTouch_lastWins(Tail(touches),
                                     [maxClosure |-> closure, bestType |-> tch.type])
             ELSE bestTouch_lastWins(Tail(touches), best)

\* the strongest touch among <<type, dist>> pairs, scanned in order
RECURSIVE bestTouch(_, _)
bestTouch(touches, best) ==
    IF touches = <<>> THEN best
    ELSE LET tch == Head(touches)
             closure == ((500 - tch.dist) * One) \div 500
         IN  IF tch.dist < 500 /\ closure > best.maxClosure
             THEN bestTouch(Tail(touches), [maxClosure |-> closure, bestType |-> tch.type])
             ELSE bestTouch(Tail(touches), best)

SuperAbstractSynth_update(s, state) ==
    LET voiceLevel == IF state.breathAmount > 200
                      THEN ((state.breathAmount - 200) * One) \div 800
                      ELSE 0
        outputLevel == Pow15(voiceLevel)
        gs == GlottalSource_setPitch(
                setVoicingAmount(setOutputLevel(s.glottalSource, outputLevel),
                                 Min((voiceLevel * 12) \div 10, One)),
                (150 * state.pitchMultiplier) \div One)
        s1 == Put(Put(Put([s EXCEPT !.glottalSource = gs],
                  "f1", Mul(250 + (state.vowelHeight * 600) \div One, s.voiceSizeMultiplier),
                  "setTargetAtTime"),
                  "f2", Mul(800 + (state.vowelBackness * 1600) \div One, s.voiceSizeMultiplier),
                  "setTargetAtTime"),
                  "f3", Mul(2200 + (state.vowelBackness * 500) \div One, s.voiceSizeMultiplier),
                  "setTargetAtTime")
        best == bestTouch(<< [type |-> "alveolar",  dist |-> state.thumbToIndex],
                             [type |-> "velar",     dist |-> state.thumbToMiddle],
                             [type |-> "fricative", dist |-> state.thumbToRing],
                             [type |-> "bilabial",  dist |-> state.thumbToPinky] >>,
                          [maxClosure |-> 0, bestType |-> ""])
        phoneme == CASE best.bestType = "bilabial" -> "m"
                     [] best.bestType = "alveolar" -> "n"
                     [] best.bestType = "velar" -> "k"
                     [] best.bestType = "fricative" -> "s"
                     [] OTHER -> ""
        matched == best.maxClosure > 0 /\ phoneme # "" /\ phoneme \in DOMAIN CONSONANTS
        params  == CONSONANTS[IF matched THEN phoneme ELSE "m"]
        targetOral  == IF matched THEN One - Mul(best.maxClosure, One - params.oralGain)
                       ELSE One
        targetNasal == IF matched THEN Mul(best.maxClosure, params.nasalGain) ELSE 0
        fric == matched /\ params.manner = "fricative"
        targetFricative == IF fric THEN (best.maxClosure * 8) \div 10 ELSE 0
        s2 == IF fric
              THEN Put(Put([s1 EXCEPT !.fricativeType = "bandpass"],
                           "fricativeFrequency", params.noiseFreq, "setTargetAtTime"),
                       "fricativeQ", params.noiseBandwidth, "setTargetAtTime")
              ELSE s1
    IN  Put(Put(Put(s2, "oralGain", targetOral, "setTargetAtTime"),
                    "nasalGain", targetNasal, "setTargetAtTime"),
                    "fricativeGain", targetFricative, "setTargetAtTime")

updateSuperAbstract(a, state) ==
    IF ~isActive(a, "super-abstract") THEN a
    ELSE [a EXCEPT !.superAbstractSynth = SuperAbstractSynth_update(@, state)]

-----------------------------------------------------------------------------
(* VowelSpace, HandAnalyzer and ConsonantDetector.  Positions, ratios and  *)
(* angles are in thousandths, thumb-to-finger distances in ten-           *)
(* thousandths, frame gaps in ms.                                          *)

\* a getFormants with the two axes exchanged
getFormants_swapped(x, y) ==
    [ f1 |-> 250 + (x * 600) \div One,
      f2 |-> 800 + (y * 1600) \div One,
      f3 |-> 2200 + (y * 500) \div One ]

getFormants(x, y) ==
    [ f1 |-> 250 + (y * 600) \div One,
      f2 |-> 800 + (x * 1600) \div One,
      f3 |-> 2200 + (x * 500) \div One ]

\* the vowel table, in the order Object.entries visits it
Vowel(name, f1, f2, f3) == [name |-> name, f1 |-> f1, f2 |-> f2, f3 |-> f3]

VOWELS ==
    << Vowel("iy", 270, 2290, 3010), Vowel("ih", 390, 1990, 2550),
       Vowel("eh", 530, 1840, 2480), Vowel("ae", 660, 1720, 2410),
       Vowel("ah", 730, 1090, 2440), Vowel("ao", 570, 840, 2410),
       Vowel("uh", 440, 1020, 2240), Vowel("uw", 300, 870, 2240),
       Vowel("er", 490, 1350, 1690) >>

\* The square of the distance the loop computes.  Math.sqrt is strictly
\* increasing on these integers, so comparing squares compares distances.
Dist2(v, f1, f2) == (v.f1 - f1) * (v.f1 - f1) + (v.f2 - f2) * (v.f2 - f2)

\* the loop state of getNearestVowel; inf stands for minDist = Infinity
NearestStart == [inf |-> TRUE, minDist |-> 0, nearest |-> ""]

\* a scan in which a later entry at the same distance replaces the earlier
RECURSIVE nearestScan_lastWins(_, _, _, _)
nearestScan_lastWins(i, acc, f1, f2) ==
    IF i > Len(VOWELS) THEN acc
    ELSE LET dist == Dist2(VOWELS[i], f1, f2)
         IN  IF acc.inf \/ dist <= acc.minDist
             THEN nearestScan_lastWins(i + 1,
                      [inf |-> FALSE, minDist |-> dist, nearest |-> VOWELS[i].name], f1, f2)
             ELSE nearestScan_lastWins(i + 1, acc, f1, f2)

RECURSIVE nearestScan(_, _, _, _)
nearestScan(i, acc, f1, f2) ==
    IF i > Len(VOWELS) THEN acc
    ELSE LET dist == Dist2(VOWELS[i], f1, f2)
         IN  IF acc.inf \/ dist < acc.minDist
             THEN nearestScan(i + 1,
                      [inf |-> FALSE, minDist |-> dist, nearest |-> VOWELS[i].name], f1, f2)
             ELSE nearestScan(i + 1, acc, f1, f2)

getNearestVowel(f1, f2) == nearestScan(1, NearestStart, f1, f2).nearest

\* the distance below which the thumb touches a finger: 0.05
TouchDistance == 500

\* HandAnalyzer.analyze from the measurements m it takes on the landmarks,
\* the pinch distance of the previous call and the time since that call
analyze(m, lastPinchDist, dt) ==
    [ pinchDistance |-> m.pinchDist,
      openness |-> m.openness,
      palmPosition |-> [x |-> m.x, y |-> m.y],
      tilt |-> m.roll,
      pitch |-> m.pitch,
      tongueHeight |-> m.tongueHeight,
      tongueBackness |-> One - m.ringExt,
      tongueTip |-> m.tongueTip,
      pinchVelocity |-> IF dt > 0 THEN ((m.pinchDist - lastPinchDist) * 100) \div dt ELSE 0,
      breathAmount |-> Clamp(((900 - m.y) * One) \div 800, 0, One),
      pitchMultiplier |-> One + (m.pitch * 13) \div 10,
      isPinch |-> m.pinchDist < TouchDistance,
      isThumbExt |-> "thumb" \in m.ext,
      isIndexExt |-> "index" \in m.ext,
      isMiddleExt |-> "middle" \in m.ext,
      isRingExt |-> "ring" \in m.ext,
      isPinkyExt |-> "pinky" \in m.ext,
      thumbToFingerDistances |-> <<m.pinchDist, m.thumbToMiddle, m.thumbToRing, m.thumbToPinky>> ]

Gesture(type, closure, isComplete, manner, phoneme) ==
    [ type |-> type, closure |-> closure, isComplete |-> isComplete,
      manner |-> manner, phoneme |-> phoneme ]

touchClosure(dist) == Max(0, One - (dist * One) \div TouchDistance)

\* a detector that tests the thumb-ring touch before the thumb-middle touch
detect_ringFirst(state) ==
    LET thumbToMiddle == state.thumbToFingerDistances[2]
        thumbToRing   == state.thumbToFingerDistances[3]
        T == state.isThumbExt
        I == state.isIndexExt
        M == state.isMiddleExt
        R == state.isRingExt
        P == state.isPinkyExt
    IN  IF state.isPinch
        THEN Gesture("bilabial", touchClosure(state.pinchDistance),
                     touchClosure(state.pinchDistance) > 800, "stop", "")
        ELSE IF thumbToRing < TouchDistance
        THEN Gesture("dental", touchClosure(thumbToRing),
                     touchClosure(thumbToRing) > 800, "fricative", "")
        ELSE IF thumbToMiddle < TouchDistance
        THEN Gesture("labiodental", touchClosure(thumbToMiddle),
                     touchClosure(thumbToMiddle) > 800, "fricative", "")
        ELSE IF T /\ I /\ ~M /\ ~R /\ ~P
        THEN Gesture("alveolar", 800, FALSE, "approximant", "l")
        ELSE IF I /\ M /\ ~R /\ ~P /\ ~T
        THEN Gesture("postalveolar", 700, FALSE, "fricative", "")
        ELSE IF T /\ P /\ ~I /\ ~M /\ ~R
        THEN Gesture("velar", 500, FALSE, "approximant", "w")
        ELSE IF I /\ P /\ ~M /\ ~R /\ ~T
        THEN Gesture("alveolar", 600, FALSE, "approximant", "r")
        ELSE IF I /\ ~M /\ ~R /\ ~P /\ ~T
        THEN Gesture("alveolar", 900, FALSE, "fricative", "")
        ELSE IF P /\ ~I /\ ~M /\ ~R /\ ~T
        THEN Gesture("velar", One, TRUE, "stop", "")
        ELSE IF I /\ M /\ R /\ P
        THEN Gesture("glottal", 400, FALSE, "fricative", "")
        ELSE Gesture("none", 0, FALSE, "none", "")

detect(state) ==
    LET thumbToMiddle == state.thumbToFingerDistances[2]
        thumbToRing   == state.thumbToFingerDistances[3]
        T == state.isThumbExt
        I == state.isIndexExt
        M == state.isMiddleExt
        R == state.isRingExt
        P == state.isPinkyExt
    IN  IF state.isPinch
        THEN Gesture("bilabial", touchClosure(state.pinchDistance),
                     touchClosure(state.pinchDistance) > 800, "stop", "")
        ELSE IF thumbToMiddle < TouchDistance
        THEN Gesture("labiodental", touchClosure(thumbToMiddle),
                     touchClosure(thumbToMiddle) > 800, "fricative", "")
        ELSE IF thumbToRing < TouchDistance
        THEN Gesture("dental", touchClosure(thumbToRing),
                     touchClosure(thumbToRing) > 800, "fricative", "")
        ELSE IF T /\ I /\ ~M /\ ~R /\ ~P
        THEN Gesture("alveolar", 800, FALSE, "approximant", "l")
        ELSE IF I /\ M /\ ~R /\ ~P /\ ~T
        THEN Gesture("postalveolar", 700, FALSE, "fricative", "")
        ELSE IF T /\ P /\ ~I /\ ~M /\ ~R
        THEN Gesture("velar", 500, FALSE, "approximant", "w")
        ELSE IF I /\ P /\ ~M /\ ~R /\ ~T
        THEN Gesture("alveolar", 600, FALSE, "approximant", "r")
        ELSE IF I /\ ~M /\ ~R /\ ~P /\ ~T
        THEN Gesture("alveolar", 900, FALSE, "fricative", "")
        ELSE IF P /\ ~I /\ ~M /\ ~R /\ ~T
        THEN Gesture("velar", One, TRUE, "stop", "")
        ELSE IF I /\ M /\ R /\ P
        THEN Gesture("glottal", 400, FALSE, "fricative", "")
        ELSE Gesture("none", 0, FALSE, "none", "")

-----------------------------------------------------------------------------
(* The mapper: the module state of main.ts and its handlers.               *)

Modes == {"simple", "advanced", "bio", "articulatory", "monkey"}
Sounds == {"raw", "clean", "fm"}

Mapper_new ==
    [ currentMode |-> "advanced", currentSound |-> "raw",
      lastBreathLevel |-> 0,
      lastClosure |-> 0,
      lastX |-> One \div 2, lastY |-> One \div 2,
      bioParams |-> [fricativeThreshold |-> (8 * One) \div 10,
                     plosiveSensitivity |-> (5 * One) \div 100],
      \* HandAnalyzer.lastPinchDist, and whether the camera loop runs
      lastPinchDist |-> 0,
      tracking |-> FALSE ]

\* one engine call of a handler: its name, its first argument, and the
\* trigger flags of a mode update
Call(op, arg, plosiveTrigger, energyTrigger) ==
    [ op |-> op, arg |-> arg,
      plosiveTrigger |-> plosiveTrigger, energyTrigger |-> energyTrigger ]

Plain(op, arg) == Call(op, arg, FALSE, FALSE)

\* what a handler leaves behind
Outcome(a, m, c) == [audio |-> a, mapper |-> m, calls |-> c]

\* ArticulatorSynth.mapStateToAcoustic: a pure function of the state whose
\* code is not part of the sources; any of these targets may come out of it
AcousticParams ==
    { [f1 |-> 500, f2 |-> 1500, f3 |-> 2500, oralGain |-> One, nasalGain |-> 0,
       fricativeGain |-> 0, fricativeFreq |-> 4000, voicingMix |-> One],
      [f1 |-> 300, f2 |-> 2000, f3 |-> 2800, oralGain |-> 0, nasalGain |-> One,
       fricativeGain |-> One \div 2, fricativeFreq |-> 6000, voicingMix |-> 0] }

mapStateToAcoustic(state) == AcousticParams

\* the preset the mode buttons select in the engine
presetClick(a, m, preset) ==
    LET m1 == [m EXCEPT !.currentMode = preset]
    IN  IF preset \in {"monkey", "articulatory", "bio"}
        THEN Outcome(setPreset(a, preset), m1, <<Plain("setPreset", preset)>>)
        ELSE Outcome(a, m1, <<>>)

soundClick(a, m, sound) ==
    LET m1 == [m EXCEPT !.currentSound = sound]
    IN  IF m.currentMode # "bio" /\ m.currentMode # "articulatory"
        THEN Outcome(setPreset(a, sound), m1, <<Plain("setPreset", sound)>>)
        ELSE Outcome(a, m1, <<>>)

\* the bio branch as written: lastClosure is overwritten with the current
\* closure before the comparison reads it
bioPlosive(closure, lastClosure, sens) ==
    LET dClosure == closure - lastClosure
        lastClosure1 == closure
    IN  closure < 800 /\ lastClosure1 > 800 /\ dClosure < 0 - sens


\* an active zone whose bounds count as inside
inActiveZone_closed(state) ==
    /\ state.palmPosition.x >= 150 /\ state.palmPosition.x <= 850
    /\ state.palmPosition.y >= 100 /\ state.palmPosition.y <= 900

inActiveZone(state) ==
    /\ state.palmPosition.x > 150 /\ state.palmPosition.x < 850
    /\ state.palmPosition.y > 100 /\ state.palmPosition.y < 900

\* a detection miss that mutes the engine
handleMiss_mute(a, m) == Outcome(setVolume(a, 0), m, <<Plain("setVolume", 0)>>)

\* handleHandData for landmarks = null: it returns at once
handleMiss(a, m) == Outcome(a, m, <<>>)

\* handleHandData for a frame with landmarks; state is the analyzed hand,
\* params the acoustic targets the articulatory mapping gives for it
\* the articulatory branch: the breath level of a forward tilt (pitch below
\* -0.15, full at -0.4), and the two edges of the breath
breathLevelOf(pitch) ==
    IF pitch < 0 - 150 THEN Min(((0 - 150 - pitch) * One) \div 250, One) ELSE 0

\* an onset raised on every tick with breath, edge or not
breathOnset_level(breathLevel, lastBreathLevel) == breathLevel > 0

breathOnset(breathLevel, lastBreathLevel) == breathLevel > 0 /\ lastBreathLevel = 0

breathRelease(breathLevel, lastBreathLevel) == ~(breathLevel > 0) /\ lastBreathLevel > 0

\* the MonkeyState handleHandData builds from an analyzed frame
monkeyStateOf(state, gesture) ==
    [ breathAmount |-> state.breathAmount,
      pitchMultiplier |-> state.pitchMultiplier,
      vowelBackness |-> state.tongueBackness,
      vowelHeight |-> state.tongueHeight,
      consonant |-> gesture ]

handleHandData(a, m0, state, pinchDist, params, t) ==
    LET m == [m0 EXCEPT !.lastPinchDist = pinchDist]
        pitch == 100 + ((One - state.palmPosition.y) * 300) \div One
        vol   == Clamp(state.pinchDistance - 300, 0, One)
        a0 == setVolume(setPitch(a, pitch), vol)
        c0 == <<Plain("setPitch", pitch), Plain("setVolume", vol)>>
        \* the smoothing shared by the bio and advanced branches
        lastX1 == m.lastX + ((state.tongueBackness - m.lastX) * 2) \div 10
        lastY1 == m.lastY + ((state.tongueHeight - m.lastY) * 2) \div 10
        formants == getFormants(lastX1, One - lastY1)
        smoothed == [m EXCEPT !.lastX = lastX1, !.lastY = lastY1]
    IN
    IF ~inActiveZone(state)
    THEN Outcome(setVolume(a, 0), m, <<Plain("setVolume", 0)>>)
    ELSE IF m.currentMode = "monkey"
    THEN LET monkeyState == monkeyStateOf(state, detect(state))
         IN  Outcome(updateMonkey(a0, monkeyState), m,
                     c0 \o <<Plain("updateMonkey", state.breathAmount)>>)
    ELSE IF m.currentMode = "articulatory"
    THEN LET lipClosure == Clamp(((1000 - state.pinchDistance) * One) \div 700, 0, One)
             plosiveTrigger == state.pinchVelocity < 0 - 2 * One
             breathLevel == breathLevelOf(state.pitch)
             energyTrigger == breathOnset(breathLevel, m.lastBreathLevel)
             release == breathRelease(breathLevel, m.lastBreathLevel)
             a1 == IF release THEN releaseEnergy(a0, t) ELSE a0
             c1 == IF release THEN c0 \o <<Plain("releaseEnergy", 0)>> ELSE c0
             articulatoryState ==
                 [ lipClosure |-> lipClosure,
                   tongueHeight |-> state.tongueHeight,
                   tongueBackness |-> state.tongueBackness,
                   tongueTipPosition |-> state.tongueTip,
                   isVoiced |-> state.tilt > 400,
                   plosiveTrigger |-> plosiveTrigger,
                   energyTrigger |-> energyTrigger ]
         IN  Outcome(updateArticulatory(a1, articulatoryState, params, t),
                     [m EXCEPT !.lastBreathLevel = breathLevel],
                     c1 \o <<Call("updateArticulatory", lipClosure,
                                  plosiveTrigger, energyTrigger)>>)
    ELSE IF m.currentMode = "bio"
    THEN LET closure == Clamp(((1000 - state.pinchDistance) * One) \div 500, 0, One)
             isVoiced == state.tilt > 400
             plosiveTrigger ==
                 bioPlosive(closure, m.lastClosure, m.bioParams.plosiveSensitivity)
             a1 == updateBio(a0, [ lipClosure |-> closure,
                                   tongueHeight |-> lastY1,
                                   isVoiced |-> isVoiced,
                                   plosiveTrigger |-> plosiveTrigger,
                                   fricativeThreshold |-> m.bioParams.fricativeThreshold ])
             a2 == setVolume(a1, One)
         IN  Outcome(setFormants(a2, formants.f1, formants.f2, formants.f3),
                     [smoothed EXCEPT !.lastClosure = closure],
                     c0 \o << Call("updateBio", closure, plosiveTrigger, FALSE),
                              Plain("setVolume", One),
                              Plain("setFormants", formants.f1) >>)
    ELSE IF m.currentMode = "simple"
    THEN LET o == state.openness
             f1 == 300 + (o * (730 - 300)) \div One
             f2 == 870 + (o * (1090 - 870)) \div One
             f3 == 2240 + (o * (2440 - 2240)) \div One
         IN  Outcome(setFormants(a0, f1, f2, f3), m, c0 \o <<Plain("setFormants", f1)>>)
    ELSE Outcome(setFormants(a0, formants.f1, formants.f2, formants.f3), smoothed,
                 c0 \o <<Plain("setFormants", formants.f1)>>)

-----------------------------------------------------------------------------
(* Specification of the excitation source alone. *)

GlottalInit ==
    /\ glottal = GlottalSource_new
    /\ envelope = EnergyEnvelope_new
    /\ now = 0
    /\ lastOp = [op |-> "new", arg |-> 0, prevOp |-> "new", prevArg |-> 0,
                 v |-> One, b |-> 0, toneBefore |-> One]
    /\ audio = AudioEngine_new
    /\ mapper = Mapper_new
    /\ calls = <<>>

GlottalSetVoicingAmount ==
    \E amount \in Amounts :
        /\ glottal' = setVoicingAmount(ClearLog(glottal), amount)
        /\ lastOp' = GlottalOp("setVoicingAmount", amount, glottal)
        /\ UNCHANGED <<envelope, now, audio, mapper, calls>>

GlottalSetBreathiness ==
    \E amount \in Amounts :
        /\ glottal' = setBreathiness(ClearLog(glottal), amount)
        /\ lastOp' = GlottalOp("setBreathiness", amount, glottal)
        /\ UNCHANGED <<envelope, now, audio, mapper, calls>>

GlottalSetPitch ==
    \E frequency \in Pitches :
        /\ glottal' = GlottalSource_setPitch(ClearLog(glottal), frequency)
        /\ lastOp' = GlottalOp("setPitch", frequency, glottal)
        /\ UNCHANGED <<envelope, now, audio, mapper, calls>>

GlottalSetOutputLevel ==
    \E level \in Amounts :
        /\ glottal' = setOutputLevel(ClearLog(glottal), level)
        /\ lastOp' = GlottalOp("setOutputLevel", level, glottal)
        /\ UNCHANGED <<envelope, now, audio, mapper, calls>>

GlottalNext ==
    \/ GlottalSetVoicingAmount
    \/ GlottalSetBreathiness
    \/ GlottalSetPitch
    \/ GlottalSetOutputLevel

SpecGlottal == GlottalInit /\ [][GlottalNext]_vars

-----------------------------------------------------------------------------
(* Specification of the energy envelope alone, with time passing.          *)

MaxTime == 1000
MaxCalls == 3
IdleStep == 250
Velocities == {0, One}
Levels == {0, (3 * One) \div 10}
\* the profiles AudioEngine.updateArticulatory writes before a trigger
Profiles == { [attack |-> 1, decay |-> 50], [attack |-> 20, decay |-> 300] }

\* The instants the clock may advance to: the end of a scheduled ramp, the
\* middle of a scheduled segment, or, with nothing scheduled, a later time.
EventTimes(ev) == { ev[i].t : i \in 1 .. Len(ev) }
MidTimes(ev) == { (ev[i].t + ev[i + 1].t) \div 2 : i \in 1 .. (Len(ev) - 1) }
NextTimes(ev, t) ==
    LET ahead == { u \in EventTimes(ev) \cup MidTimes(ev) : u > t }
    IN  IF ahead # {} THEN ahead
        ELSE IF t + IdleStep <= MaxTime THEN {t + IdleStep} ELSE {}

EnvOp(op, arg) ==
    [ op |-> op, arg |-> arg, at |-> now, n |-> lastOp.n + 1,
      attack |-> envelope.attack, decay |-> envelope.decay ]

EnvInit ==
    /\ envelope = EnergyEnvelope_new
    /\ now = 0
    /\ lastOp = [op |-> "new", arg |-> 0, at |-> 0, n |-> 0, attack |-> 10, decay |-> 300]
    /\ glottal = GlottalSource_new
    /\ audio = AudioEngine_new
    /\ mapper = Mapper_new
    /\ calls = <<>>

EnvTrigger ==
    \E velocity \in Velocities :
        /\ lastOp.n < MaxCalls
        /\ envelope' = trigger(ClearLog(envelope), velocity, now)
        /\ lastOp' = EnvOp("trigger", velocity)
        /\ UNCHANGED <<glottal, now, audio, mapper, calls>>

EnvReleaseNote ==
    /\ lastOp.n < MaxCalls
    /\ envelope' = releaseNote(ClearLog(envelope), now)
    /\ lastOp' = EnvOp("releaseNote", 0)
    /\ UNCHANGED <<glottal, now, audio, mapper, calls>>

EnvSetLevel ==
    \E level \in Levels :
        /\ lastOp.n < MaxCalls
        /\ envelope' = setLevel(ClearLog(envelope), level, now)
        /\ lastOp' = EnvOp("setLevel", level)
        /\ UNCHANGED <<glottal, now, audio, mapper, calls>>

\* attack and decay are public fields, written by the engine before a trigger
EnvSetTiming ==
    \E p \in Profiles :
        /\ lastOp.n < MaxCalls
        /\ envelope' = [ClearLog(envelope) EXCEPT !.attack = p.attack, !.decay = p.decay]
        /\ lastOp' = [EnvOp("setTiming", 0) EXCEPT !.attack = p.attack, !.decay = p.decay]
        /\ UNCHANGED <<glottal, now, audio, mapper, calls>>

Advance ==
    \E t \in NextTimes(envelope.gain.ev, now) :
        /\ now' = t
        /\ UNCHANGED <<glottal, envelope, lastOp, audio, mapper, calls>>

EnvNext ==
    \/ EnvTrigger
    \/ EnvReleaseNote
    \/ EnvSetLevel
    \/ EnvSetTiming
    \/ Advance

SpecEnv == EnvInit /\ [][EnvNext]_vars

\* the envelope was last touched by trigger(1.0), and nothing since
AfterFullTrigger == lastOp.op = "trigger" /\ lastOp.arg = One

(* C10: after trigger(1.0) with no intervening call the gain is 1.0 at the *)
(* end of the attack time, lies between the floor and 1.0 during the       *)
(* decay, is at the near-zero floor (0.01) from attack+decay on and stays  *)
(* there; and through any sequence of trigger, releaseNote and setLevel    *)
(* calls with non-negative arguments the gain is never negative.           *)
C10_EnvelopeShape ==
    LET g == GainValue(envelope, now)
        attackEnd == lastOp.at + lastOp.attack
        decayEnd  == lastOp.at + lastOp.attack + lastOp.decay
    IN  /\ g >= 0
        /\ (AfterFullTrigger /\ now = attackEnd) => g = One
        /\ (AfterFullTrigger /\ now >= attackEnd /\ now <= decayEnd)
               => (g >= TriggerFloor /\ g <= One)
        /\ (AfterFullTrigger /\ now >= decayEnd) => g = TriggerFloor

\* C10 witness: a full trigger made after a release, sampled after its decay
C10_Witness ==
    /\ AfterFullTrigger
    /\ lastOp.n = 3
    /\ now > lastOp.at + lastOp.attack + lastOp.decay
    /\ GainValue(envelope, now) = TriggerFloor

-----------------------------------------------------------------------------
(* Specification of a session: the start button, the mode and sound        *)
(* buttons, the sliders, and the detection ticks of the camera loop.       *)

MaxClicks == 3
MaxTicks == 3

BaseFrame ==
    [ x |-> 500, y |-> 500, pinchDist |-> 1500, roll |-> 500, pitch |-> 0,
      tongueHeight |-> 500, ringExt |-> 500, tongueTip |-> 500, openness |-> 500,
      ext |-> {}, thumbToMiddle |-> 1000, thumbToRing |-> 1000, thumbToPinky |-> 1000,
      gap |-> 10 ]

\* the frames of a tick: pinch distances that give bio closures 0.9, 0.95,
\* 0.3 and 1, palms on and beyond the bounds of the active zone, forward
\* tilts, a whispering roll with a high tongue, finger patterns
Frames ==
    { [BaseFrame EXCEPT !.pinchDist = 550],
      [BaseFrame EXCEPT !.pinchDist = 525],
      [BaseFrame EXCEPT !.pinchDist = 850],
      [BaseFrame EXCEPT !.pinchDist = 200, !.gap = 10],
      [BaseFrame EXCEPT !.x = 150, !.pinchDist = 850],
      [BaseFrame EXCEPT !.x = 900, !.pitch = 0 - 400, !.pinchDist = 200],
      [BaseFrame EXCEPT !.y = 900, !.tongueHeight = One],
      [BaseFrame EXCEPT !.y = 50, !.roll = 300],
      [BaseFrame EXCEPT !.pitch = 0 - 400, !.y = 200],
      [BaseFrame EXCEPT !.roll = 300, !.tongueHeight = One, !.ext = {"index"}],
      [BaseFrame EXCEPT !.ext = {"thumb", "index"}, !.gap = 100] }

VoiceSizes == {One \div 2, (11 * One) \div 10}
FricativeThresholds == {One \div 2}
PlosiveSensitivities == {One \div 10}

SessionOp(op, frame, isTick) ==
    [ op |-> op, frame |-> frame,
      clicks |-> IF isTick THEN lastOp.clicks ELSE lastOp.clicks + 1,
      ticks  |-> IF isTick THEN lastOp.ticks + 1 ELSE lastOp.ticks ]

\* every log of the engine and of the objects it owns emptied
ClearLogs(a) ==
    [a EXCEPT !.log = {},
              !.energyEnvelope.log = {},
              !.glottalSource.log = {},
              !.superAbstractSynth.log = {},
              !.superAbstractSynth.glottalSource.log = {}]

\* the parameter writes of the last operation on the engine
Writes(a) ==
    a.log \cup a.energyEnvelope.log \cup a.glottalSource.log
          \cup a.superAbstractSynth.log \cup a.superAbstractSynth.glottalSource.log

Init ==
    /\ audio = AudioEngine_new
    /\ mapper = Mapper_new
    /\ calls = <<>>
    /\ lastOp = [op |-> "new", frame |-> BaseFrame, clicks |-> 0, ticks |-> 0]
    /\ now = 0
    /\ glottal = GlottalSource_new
    /\ envelope = EnergyEnvelope_new

Settle(out) ==
    /\ audio' = out.audio
    /\ mapper' = out.mapper
    /\ calls' = out.calls
    /\ UNCHANGED <<now, glottal, envelope>>

\* the start button: await audio.init(); audio.start(); tracker.startCamera()
StartClick ==
    /\ lastOp.clicks < MaxClicks
    /\ Settle(Outcome(start(init(ClearLogs(audio))),
                      [mapper EXCEPT !.tracking = TRUE],
                      <<Plain("init", 0), Plain("start", 0)>>))
    /\ lastOp' = SessionOp("start", lastOp.frame, FALSE)

PresetClick ==
    \E preset \in Modes :
        /\ lastOp.clicks < MaxClicks
        /\ Settle(presetClick(ClearLogs(audio), mapper, preset))
        /\ lastOp' = SessionOp("preset", lastOp.frame, FALSE)

SoundClick ==
    \E sound \in Sounds :
        /\ lastOp.clicks < MaxClicks
        /\ Settle(soundClick(ClearLogs(audio), mapper, sound))
        /\ lastOp' = SessionOp("sound", lastOp.frame, FALSE)

VoiceSizeInput ==
    \E val \in VoiceSizes :
        /\ lastOp.clicks < MaxClicks
        /\ Settle(Outcome(setVoiceSize(ClearLogs(audio), val), mapper,
                          <<Plain("setVoiceSize", val)>>))
        /\ lastOp' = SessionOp("voiceSize", lastOp.frame, FALSE)

FricThreshInput ==
    \E val \in FricativeThresholds :
        /\ lastOp.clicks < MaxClicks
        /\ Settle(Outcome(ClearLogs(audio),
                          [mapper EXCEPT !.bioParams.fricativeThreshold = val], <<>>))
        /\ lastOp' = SessionOp("fricThresh", lastOp.frame, FALSE)

PlosiveSensInput ==
    \E val \in PlosiveSensitivities :
        /\ lastOp.clicks < MaxClicks
        /\ Settle(Outcome(ClearLogs(audio),
                          [mapper EXCEPT !.bioParams.plosiveSensitivity = val], <<>>))
        /\ lastOp' = SessionOp("plosiveSens", lastOp.frame, FALSE)

\* a detection miss: handleHandData with landmarks = null
TickMiss ==
    /\ mapper.tracking
    /\ lastOp.ticks < MaxTicks
    /\ Settle(handleMiss(audio, mapper))
    /\ lastOp' = SessionOp("miss", lastOp.frame, TRUE)

Tick ==
    \E fr \in Frames :
        LET state == analyze(fr, mapper.lastPinchDist, fr.gap)
        IN  \E params \in mapStateToAcoustic(state) :
              /\ mapper.tracking
              /\ lastOp.ticks < MaxTicks
              /\ Settle(handleHandData(ClearLogs(audio), mapper, state,
                                       fr.pinchDist, params, now))
              /\ lastOp' = SessionOp("tick", fr, TRUE)

Next ==
    \/ StartClick
    \/ PresetClick
    \/ SoundClick
    \/ VoiceSizeInput
    \/ FricThreshInput
    \/ PlosiveSensInput
    \/ TickMiss
    \/ Tick

Spec == Init /\ [][Next]_vars

-----------------------------------------------------------------------------
(* Specification of the engine alone: its public operations called         *)
(* directly, in any order, before and after init.                          *)

MaxEngineCalls == 4

BioInputs ==
    { [lipClosure |-> lc, tongueHeight |-> th, isVoiced |-> FALSE,
       plosiveTrigger |-> pt, fricativeThreshold |-> (8 * One) \div 10] :
      lc \in {One \div 4, One}, th \in {(9 * One) \div 10, (95 * One) \div 100},
      pt \in BOOLEAN }

ArticulatoryInputs ==
    { [lipClosure |-> 0, tongueHeight |-> One \div 2, tongueBackness |-> One \div 2,
       tongueTipPosition |-> One \div 2, isVoiced |-> TRUE,
       plosiveTrigger |-> pt, energyTrigger |-> et] :
      pt \in BOOLEAN, et \in BOOLEAN }

MonkeyInputs ==
    { [breathAmount |-> br, pitchMultiplier |-> One, vowelBackness |-> One \div 2,
       vowelHeight |-> One \div 2, consonant |-> c] :
      br \in {One \div 10, One},
      c \in { Gesture("none", 0, FALSE, "none", ""),
              Gesture("bilabial", One, TRUE, "stop", ""),
              Gesture("alveolar", 900, FALSE, "fricative", ""),
              Gesture("alveolar", 800, FALSE, "approximant", "l") } }

SuperAbstractInputs ==
    { [breathAmount |-> One, pitchMultiplier |-> One, vowelHeight |-> One \div 2,
       vowelBackness |-> One \div 2, thumbToIndex |-> ti, thumbToMiddle |-> 1000,
       thumbToRing |-> tr, thumbToPinky |-> 1000] :
      ti \in {100, 1000}, tr \in {100, 1000} }

EngineOp(op) ==
    [ op |-> op, prev |-> audio.currentPreset, inited |-> audio.audioContext,
      n |-> IF audio.audioContext THEN lastOp.n + 1 ELSE lastOp.n ]

EngineInit ==
    /\ audio = AudioEngine_new
    /\ lastOp = [op |-> "new", prev |-> "raw", inited |-> FALSE, n |-> 0]
    /\ mapper = Mapper_new
    /\ calls = <<>>
    /\ now = 0
    /\ glottal = GlottalSource_new
    /\ envelope = EnergyEnvelope_new

\* one call of an engine operation giving the engine a
Called(op, a) ==
    /\ lastOp.n < MaxEngineCalls
    /\ audio' = a
    /\ lastOp' = EngineOp(op)
    /\ UNCHANGED <<mapper, calls, now, glottal, envelope>>

EngInit == Called("init", init(ClearLogs(audio)))

EngSetPreset == \E name \in PresetNames : Called("setPreset", setPreset(ClearLogs(audio), name))

EngStart == Called("start", start(ClearLogs(audio)))

EngSetPitch == \E f \in {220} : Called("setPitch", setPitch(ClearLogs(audio), f))

EngSetVolume == \E v \in {0, One} : Called("setVolume", setVolume(ClearLogs(audio), v))

EngSetNoise == \E v \in {One \div 2} : Called("setNoise", setNoise(ClearLogs(audio), v))

EngSetFormants ==
    \E f \in {getFormants(One, One)} :
        Called("setFormants", setFormants(ClearLogs(audio), f.f1, f.f2, f.f3))

EngTriggerEnergy == Called("triggerEnergy", triggerEnergy(ClearLogs(audio), One, now))

EngReleaseEnergy == Called("releaseEnergy", releaseEnergy(ClearLogs(audio), now))

EngUpdateBio ==
    \E params \in BioInputs : Called("updateBio", updateBio(ClearLogs(audio), params))

EngUpdateArticulatory ==
    \E state \in ArticulatoryInputs :
        \E params \in mapStateToAcoustic(state) :
            Called("updateArticulatory",
                   updateArticulatory(ClearLogs(audio), state, params, now))

EngUpdateMonkey ==
    \E state \in MonkeyInputs : Called("updateMonkey", updateMonkey(ClearLogs(audio), state))

EngUpdateSuperAbstract ==
    \E state \in SuperAbstractInputs :
        Called("updateSuperAbstract", updateSuperAbstract(ClearLogs(audio), state))

\* the slider values of the session, and one above the band
EngineVoiceSizes == VoiceSizes \cup {(3 * One) \div 2}

EngSetVoiceSize ==
    \E val \in EngineVoiceSizes : Called("setVoiceSize", setVoiceSize(ClearLogs(audio), val))

EngineNext ==
    \/ EngInit
    \/ EngSetPreset
    \/ EngStart
    \/ EngSetPitch
    \/ EngSetVolume
    \/ EngSetNoise
    \/ EngSetFormants
    \/ EngTriggerEnergy
    \/ EngReleaseEnergy
    \/ EngUpdateBio
    \/ EngUpdateArticulatory
    \/ EngUpdateMonkey
    \/ EngUpdateSuperAbstract
    \/ EngSetVoiceSize

SpecEngine == EngineInit /\ [][EngineNext]_vars

-----------------------------------------------------------------------------
(* Properties of a session (Spec).                                         *)

HasCall(c, op) == \E i \in 1 .. Len(c) : c[i].op = op

FiredPlosive(c) == \E i \in 1 .. Len(c) : c[i].op = "updateBio" /\ c[i].plosiveTrigger

\* the edge rule on two successive closures
plosiveRule(closure, previous, sens) ==
    closure < 800 /\ previous > 800 /\ previous - closure > sens

(* C1: in bio-mechanical mode the plosive trigger of a tick is raised      *)
(* exactly when the previous tick's closure was above 0.8, the tick's own  *)
(* closure is below 0.8 and the drop is larger than the sensitivity; so    *)
(* closures 0.9, 0.95, 0.3 raise it on the third tick.                     *)
C1_PlosiveEdge ==
    [][ ( /\ lastOp'.op = "tick"
          /\ lastOp'.ticks = lastOp.ticks + 1
          /\ HasCall(calls', "updateBio") )
        => ( FiredPlosive(calls')
               <=> plosiveRule(mapper'.lastClosure, mapper.lastClosure,
                               mapper.bioParams.plosiveSensitivity) ) ]_vars

\* the palm of a frame is outside the open rectangle (0.15, 0.85) x (0.1, 0.9)
OutsideZone(fr) == ~(fr.x > 150 /\ fr.x < 850 /\ fr.y > 100 /\ fr.y < 900)

\* the variables of main.ts a tick may write
MapperVars(m) ==
    << m.currentMode, m.currentSound, m.lastX, m.lastY, m.lastBreathLevel,
       m.lastClosure, m.bioParams >>

\* the engine without the two parameters setVolume writes and without logs
BesidesVolume(a) == [ClearLogs(a) EXCEPT !.masterGain = 0, !.lpfFrequency = 0]

C3_DetectionMiss ==
    [][ ( lastOp'.op = "miss" /\ lastOp'.ticks = lastOp.ticks + 1 )
        => ( calls' = <<>> /\ audio' = audio /\ mapper' = mapper ) ]_vars

\* C3 witness: a miss on the third tick of a sounding bio session
C3_Witness ==
    /\ lastOp.op = "miss"
    /\ lastOp.ticks = 3
    /\ mapper.currentMode = "bio"
    /\ mapper.lastClosure > 0
    /\ audio.masterGain = One
    /\ calls = <<>>

-----------------------------------------------------------------------------
(* Properties of the engine (SpecEngine).                                  *)

\* the preset each mode update belongs to
ModeOf ==
    [ updateBio |-> "bio", updateArticulatory |-> "articulatory",
      updateMonkey |-> "monkey", updateSuperAbstract |-> "super-abstract" ]

(* C4: updateBio, updateArticulatory, updateMonkey and updateSuperAbstract *)
(* called while the active preset is another mode's change nothing in the  *)
(* engine: no gain, filter, formant, pitch, envelope timing or envelope    *)
(* trigger state, and they write no parameter.                             *)
C4_ModeMismatch ==
    [][ ( /\ lastOp'.n = lastOp.n + 1
          /\ lastOp'.op \in DOMAIN ModeOf
          /\ audio.currentPreset # ModeOf[lastOp'.op] )
        => ( ClearLogs(audio') = ClearLogs(audio) /\ Writes(audio') = {} ) ]_vars

\* C4 witness: updateMonkey called on a bio engine whose nasal path is open
C4_Witness ==
    /\ lastOp.op = "updateMonkey"
    /\ lastOp.inited
    /\ audio.currentPreset = "bio"
    /\ audio.nasalGain > 0
    /\ Writes(audio) = {}

\* the connections that leave a source node of a preset
SourceEdges(a) == { e \in a.edges : e[1] \in PresetSources }

(* C5: after any sequence of setPreset calls the source connections into   *)
(* the formant chain, the oral gain, the nasal filter, the fricative       *)
(* filter and the master gain are exactly the routing of the preset        *)
(* selected last; nothing an earlier preset wired stays connected.         *)
C5_Routing ==
    audio.audioContext =>
        /\ SourceEdges(audio) = Routing(audio.currentPreset)
        /\ audio.edges = FixedEdges \cup Routing(audio.currentPreset)

\* C5 witness: raw selected after bio, whose noise fed two filters
C5_Witness ==
    /\ lastOp.op = "setPreset"
    /\ lastOp.inited
    /\ lastOp.prev = "bio"
    /\ audio.currentPreset = "raw"
    /\ SourceEdges(audio) = {<<"mainOscillator", "f1">>}

(* C6: immediately after setPreset(m) the oral, nasal and fricative mix    *)
(* gains hold the defaults 1, 0, 0 and the master gain holds the default   *)
(* of m where m has one, whatever earlier modes and updates left behind.   *)
C6_GainsReset ==
    (lastOp.op = "setPreset" /\ lastOp.inited) =>
        /\ audio.oralGain = One
        /\ audio.nasalGain = 0
        /\ audio.fricativeGain = 0
        /\ audio.currentPreset \in {"articulatory", "super-abstract"} => audio.masterGain = One
        /\ audio.currentPreset = "monkey" => audio.masterGain = 0

\* the operations of the update path
UpdatePath ==
    { "setPitch", "setVolume", "setFormants", "updateBio", "updateArticulatory",
      "updateMonkey", "updateSuperAbstract" }

(* C7: every parameter write of an operation of the update path is a ramp  *)
(* toward a target; none assigns a value as an instantaneous step.         *)
C7_RampsOnly ==
    (lastOp.op \in UpdatePath /\ lastOp.inited) =>
        \A w \in Writes(audio) : w[2] \notin StepMethods

-----------------------------------------------------------------------------
(* Properties of the excitation source (SpecGlottal).                      *)

\* setVoicingAmount(0) was followed at once by setBreathiness(0)
WhisperThenNoBreath ==
    /\ lastOp.op = "setBreathiness" /\ lastOp.arg = 0
    /\ lastOp.prevOp = "setVoicingAmount" /\ lastOp.prevArg = 0

(* C8 as stated: after setVoicingAmount(0) followed by setBreathiness(0)   *)
(* the tone gain target is 0 and the noise gain target is 0.               *)
C8_WhisperSilent ==
    WhisperThenNoBreath => (glottal.voicedGain = 0 /\ glottal.noiseGain = 0)

(* C8: after setVoicingAmount(0) followed by setBreathiness(0) the tone    *)
(* gain target is 0 and the noise gain target is 1: pure whisper, noise    *)
(* only.                                                                   *)
C8_WhisperNoise ==
    WhisperThenNoBreath => (glottal.voicedGain = 0 /\ glottal.noiseGain = One)

\* C8 witness: the two calls made in that order
C8_Witness ==
    /\ WhisperThenNoBreath
    /\ glottal.voicedGain = 0
    /\ glottal.noiseGain = One

(* C9: after any sequence of setVoicingAmount and setBreathiness calls the *)
(* tone gain target is the last voicing amount v clamped to [0,1] and the  *)
(* noise gain target is (1 - v) + 0.3*b with b the last breathiness        *)
(* clamped to [0,1]; setBreathiness leaves the tone gain target alone; at  *)
(* v = 1 the tone gain is 1 and the noise gain is nonzero exactly when     *)
(* b > 0.                                                                  *)
C9_Mix ==
    LET v == Clamp(lastOp.v, 0, One)
        b == Clamp(lastOp.b, 0, One)
    IN  /\ glottal.voicedGain = v
        /\ glottal.noiseGain = (One - v) + (3 * b) \div 10
        /\ lastOp.op = "setBreathiness" => glottal.voicedGain = lastOp.toneBefore
        /\ v = One => (glottal.voicedGain = One /\ (glottal.noiseGain # 0 <=> b > 0))

\* C9 witness: half breathiness set after a voicing amount above 1
C9_Witness ==
    /\ lastOp.op = "setBreathiness"
    /\ lastOp.prevOp = "setVoicingAmount"
    /\ lastOp.v > One
    /\ lastOp.b = One \div 2
    /\ glottal.voicedGain = One
    /\ glottal.noiseGain = (3 * One) \div 20

-----------------------------------------------------------------------------
(* Claims about the energy envelope's release and retrigger.               *)

\* the step is one call of the envelope operation op
EnvCall(op) == lastOp'.op = op /\ lastOp'.n = lastOp.n + 1

\* the events of ev that lie at or after time t
Scheduled(ev, t) == SelectSeq(ev, LAMBDA x : x.t >= t)

(* C11: releaseNote takes effect only in the triggered state.  Called when *)
(* never triggered or already released it schedules nothing and changes    *)
(* no state, so a second release, at any later time, changes nothing; in   *)
(* the triggered state it cancels what was scheduled, leaves exactly a     *)
(* ramp from the current level to the floor 0.001 over the release time,   *)
(* and clears the triggered flag.                                          *)
C11_ReleaseOnlyTriggered ==
    [][ EnvCall("releaseNote") =>
          /\ ~envelope'.isTriggered
          /\ releaseNote(envelope', now) = envelope'
          /\ releaseNote(envelope', now + IdleStep) = envelope'
          /\ ~envelope.isTriggered =>
                 /\ envelope'.log = {}
                 /\ envelope' = ClearLog(envelope)
          /\ envelope.isTriggered =>
                 /\ W("envelope.gain", "cancelScheduledValues") \in envelope'.log
                 /\ Scheduled(envelope'.gain.ev, now) =
                        << Event("setValueAtTime", GainValue(envelope, now), now, 0),
                           Event("exponentialRampToValueAtTime", ReleaseFloor,
                                 now + envelope.release, 0) >>
                 /\ GainValue(envelope', now) = GainValue(envelope, now)
                 /\ GainValue(envelope', now + envelope.release) = ReleaseFloor
      ]_vars

\* C11 witness: a release that did nothing, made while the ramp of an
\* earlier, effective release of a sounding envelope is in flight
C11_Witness ==
    /\ lastOp.op = "releaseNote"
    /\ envelope.log = {}
    /\ ~envelope.isTriggered
    /\ Len(envelope.gain.ev) = 2
    /\ envelope.gain.ev[1].v > ReleaseFloor
    /\ envelope.gain.ev[2] = Event("exponentialRampToValueAtTime", ReleaseFloor,
                                   envelope.gain.ev[1].t + envelope.release, 0)
    /\ now > envelope.gain.ev[1].t
    /\ now < envelope.gain.ev[2].t

(* C12: a trigger made while earlier ramps are in flight cancels every     *)
(* scheduled event and starts the attack from the gain's level at that     *)
(* instant, not from zero; after it, whatever came before, exactly the     *)
(* attack ramp and the decay ramp of this trigger are scheduled.           *)
C12_Retrigger ==
    [][ EnvCall("trigger") =>
          /\ envelope'.isTriggered
          /\ W("envelope.gain", "cancelScheduledValues") \in envelope'.log
          /\ GainValue(envelope', now) = GainValue(envelope, now)
          /\ Scheduled(envelope'.gain.ev, now) =
                 << Event("setValueAtTime", GainValue(envelope, now), now, 0),
                    Event("linearRampToValueAtTime", lastOp'.arg,
                          now + envelope.attack, 0),
                    Event("exponentialRampToValueAtTime", TriggerFloor,
                          now + envelope.attack + envelope.decay, 0) >>
      ]_vars

\* C12 witness: a trigger made in the middle of an earlier ramp, so that its
\* attack starts from a level strictly between the floor and full level
C12_Witness ==
    /\ lastOp.op = "trigger"
    /\ lastOp.n >= 2
    /\ now = lastOp.at
    /\ GainValue(envelope, now) > TriggerFloor
    /\ GainValue(envelope, now) < One
    /\ Len(Scheduled(envelope.gain.ev, now)) = 3

-----------------------------------------------------------------------------
(* Specification of VowelSpace alone: its two static functions applied to  *)
(* inputs inside and outside the unit square.                              *)

MaxVowelK == 6
\* positions from -0.2 to 1.2 in fifths
VowelGrid == { (k * One) \div 5 : k \in -1 .. MaxVowelK }

\* the points getNearestVowel is asked about: every table entry, the point
\* halfway between any two entries, and the formants last computed
TablePoints == { <<VOWELS[i].f1, VOWELS[i].f2>> : i \in 1 .. Len(VOWELS) }
HalfwayPoints ==
    { << (VOWELS[i].f1 + VOWELS[j].f1) \div 2, (VOWELS[i].f2 + VOWELS[j].f2) \div 2 >> :
         i, j \in 1 .. Len(VOWELS) }

VowelOp(op, x, y, f1, f2) ==
    [ op |-> op, x |-> x, y |-> y, formants |-> getFormants(x, y),
      px |-> lastOp.x, py |-> lastOp.y, pformants |-> lastOp.formants,
      f1 |-> f1, f2 |-> f2,
      nearest |-> IF op = "getNearestVowel" THEN getNearestVowel(f1, f2) ELSE "" ]

VowelInit ==
    /\ \E x, y \in {0, One} :
          lastOp = [ op |-> "getFormants", x |-> x, y |-> y, formants |-> getFormants(x, y),
                     px |-> x, py |-> y, pformants |-> getFormants(x, y),
                     f1 |-> 0, f2 |-> 0, nearest |-> "" ]
    /\ glottal = GlottalSource_new
    /\ envelope = EnergyEnvelope_new
    /\ now = 0
    /\ audio = AudioEngine_new
    /\ mapper = Mapper_new
    /\ calls = <<>>

VowelGetFormants ==
    \E x, y \in VowelGrid :
        /\ lastOp' = VowelOp("getFormants", x, y, 0, 0)
        /\ UNCHANGED <<glottal, envelope, now, audio, mapper, calls>>

\* the vowel name shown for a table point, a halfway point, or the formants
\* just computed (main.ts passes formants.f1, formants.f2)
VowelGetNearest ==
    \E p \in TablePoints \cup HalfwayPoints
              \cup { <<lastOp.formants.f1, lastOp.formants.f2>> } :
        /\ lastOp' = [ VowelOp("getNearestVowel", lastOp.x, lastOp.y, p[1], p[2])
                         EXCEPT !.px = lastOp.x, !.py = lastOp.y,
                                !.pformants = lastOp.formants ]
        /\ UNCHANGED <<glottal, envelope, now, audio, mapper, calls>>

VowelNext ==
    \/ VowelGetFormants
    \/ VowelGetNearest

SpecVowel == VowelInit /\ [][VowelNext]_vars

(* C13: getFormants(backness, height) returns f1 = 250 + 600*height,       *)
(* f2 = 800 + 1600*backness, f3 = 2200 + 500*backness.  Of two results,    *)
(* the one with the larger height has the larger or equal f1 and the one   *)
(* with the larger backness the larger or equal f2 and f3; f1 does not     *)
(* depend on backness, nor f2 and f3 on height; equal arguments give equal *)
(* results; and arguments outside [0,1] are not clamped.                   *)
C13_Formants ==
    LET f == lastOp.formants
        g == lastOp.pformants
    IN  /\ One * (f.f1 - 250) = 600 * lastOp.y
        /\ One * (f.f2 - 800) = 1600 * lastOp.x
        /\ One * (f.f3 - 2200) = 500 * lastOp.x
        /\ lastOp.py <= lastOp.y => g.f1 <= f.f1
        /\ lastOp.px <= lastOp.x => (g.f2 <= f.f2 /\ g.f3 <= f.f3)
        /\ lastOp.py = lastOp.y => g.f1 = f.f1
        /\ lastOp.px = lastOp.x => (g.f2 = f.f2 /\ g.f3 = f.f3)
        /\ lastOp.y > One => f.f1 > 850
        /\ lastOp.y < 0 => f.f1 < 250
        /\ lastOp.x > One => (f.f2 > 2400 /\ f.f3 > 2700)
        /\ lastOp.x < 0 => (f.f2 < 800 /\ f.f3 < 2200)

\* C13 witness: two calls inside the unit square that differ on both axes,
\* the later one higher and further front
C13_Witness ==
    /\ lastOp.op = "getFormants"
    /\ lastOp.px > 0 /\ lastOp.px < lastOp.x /\ lastOp.x < One
    /\ lastOp.py > 0 /\ lastOp.py < lastOp.y /\ lastOp.y < One
    /\ lastOp.pformants.f1 < lastOp.formants.f1
    /\ lastOp.pformants.f2 < lastOp.formants.f2

\* the table entries at the least distance from (f1, f2)
Nearest(f1, f2) ==
    { i \in 1 .. Len(VOWELS) :
        \A j \in 1 .. Len(VOWELS) : Dist2(VOWELS[i], f1, f2) <= Dist2(VOWELS[j], f1, f2) }

(* C14: getNearestVowel applied to the (f1, f2) of a table entry returns   *)
(* that entry's name, and when several entries are at the same least       *)
(* distance the one that comes first in the table is returned.             *)
C14_NearestVowel ==
    lastOp.op = "getNearestVowel" =>
        /\ \A i \in 1 .. Len(VOWELS) :
              (VOWELS[i].f1 = lastOp.f1 /\ VOWELS[i].f2 = lastOp.f2)
                  => lastOp.nearest = VOWELS[i].name
        /\ \E i \in Nearest(lastOp.f1, lastOp.f2) :
              /\ lastOp.nearest = VOWELS[i].name
              /\ \A j \in Nearest(lastOp.f1, lastOp.f2) : i <= j

\* C14 witness: a point with two table entries at the same least distance
C14_Witness ==
    /\ lastOp.op = "getNearestVowel"
    /\ Cardinality(Nearest(lastOp.f1, lastOp.f2)) >= 2
    /\ lastOp.nearest # ""

-----------------------------------------------------------------------------
(* Claims about the engine's voice size and gain targets.                  *)

\* the step is one call of the engine operation op on an initialised engine
EngineCall(op) == lastOp'.op = op /\ lastOp'.n = lastOp.n + 1

VoiceSizeLow == (8 * One) \div 10
VoiceSizeHigh == (12 * One) \div 10

(* C15: the voice-size multiplier is 1.0 until setVoiceSize is called,     *)
(* only setVoiceSize changes it, setVoiceSize(m) stores m clamped to       *)
(* [0.8, 1.2], so the multiplier is always in [0.8, 1.2]; and the formants *)
(* updateMonkey writes for a vowel without consonant are the base formants *)
(* times a factor in [0.8, 1.2], those blended toward an approximant lie   *)
(* between 0.8 times the smaller and 1.2 times the larger of base and      *)
(* target.                                                                 *)
C15_VoiceSize ==
    /\ audio.voiceSizeMultiplier = One
    /\ [](audio.voiceSizeMultiplier >= VoiceSizeLow
            /\ audio.voiceSizeMultiplier <= VoiceSizeHigh)
    /\ [][ audio'.voiceSizeMultiplier # audio.voiceSizeMultiplier
             => /\ lastOp'.op = "setVoiceSize"
                /\ \E m \in EngineVoiceSizes :
                      audio'.voiceSizeMultiplier =
                          IF m < VoiceSizeLow THEN VoiceSizeLow
                          ELSE IF m > VoiceSizeHigh THEN VoiceSizeHigh ELSE m ]_vars
    /\ [][ (EngineCall("updateMonkey") /\ audio.currentPreset = "monkey")
             => \E state \in MonkeyInputs :
                  LET b1 == 250 + (state.vowelHeight * 600) \div One
                      b2 == 800 + (state.vowelBackness * 1600) \div One
                      ph == resolvePhoneme(state.consonant)
                      hasTarget == state.consonant.type # "none"
                                      /\ ph \in DOMAIN CONSONANTS
                                      /\ CONSONANTS[ph].hasTarget
                      t1 == IF hasTarget THEN CONSONANTS[ph].targetFormants.f1 ELSE b1
                      t2 == IF hasTarget THEN CONSONANTS[ph].targetFormants.f2 ELSE b2
                  IN  /\ audio' = updateMonkey(ClearLogs(audio), state)
                      /\ One * (audio'.f1 + 1) >= VoiceSizeLow * Min(b1, t1)
                      /\ One * audio'.f1 <= VoiceSizeHigh * Max(b1, t1)
                      /\ One * (audio'.f2 + 1) >= VoiceSizeLow * Min(b2, t2)
                      /\ One * audio'.f2 <= VoiceSizeHigh * Max(b2, t2) ]_vars

\* C15 witness: setVoiceSize(1.5) was clamped to 1.2 and a monkey update
\* without consonant then wrote f1 = 550 * 1.2
C15_Witness ==
    /\ lastOp.op = "updateMonkey"
    /\ audio.currentPreset = "monkey"
    /\ audio.audioContext
    /\ audio.voiceSizeMultiplier = VoiceSizeHigh
    /\ audio.f1 = 660
    /\ W("f1", "linearRampToValueAtTime") \in audio.log

\* a gain target between 0 and 1
UnitGain(g) == g >= 0 /\ g <= One

(* C16: every oral, nasal, fricative and output gain target the engine     *)
(* holds after a mode update lies in [0, 1], whatever the gesture features *)
(* were.                                                                   *)
C16_GainTargets ==
    /\ UnitGain(audio.oralGain)
    /\ UnitGain(audio.nasalGain)
    /\ UnitGain(audio.fricativeGain)
    /\ UnitGain(audio.masterGain)

-----------------------------------------------------------------------------
(* Claims about the ticks of a session.                                    *)

\* the step is one processed tick of the camera loop
TickStep == lastOp'.op = "tick" /\ lastOp'.ticks = lastOp.ticks + 1

\* the lip closure the claim gives for a pinch distance (in 1/10000):
\* clamp((0.1 - pinch) / 0.05, 0, 1)
closureOf(pinch) ==
    LET raw == ((1000 - pinch) * One) \div 500
    IN  IF raw < 0 THEN 0 ELSE IF raw > One THEN One ELSE raw

\* the last step was a tick that ran updateBio on a bio engine
BioTicked(op, c, a) == op.op = "tick" /\ HasCall(c, "updateBio") /\ a.currentPreset = "bio"

(* C17: in a bio tick the lip closure is clamp((0.1 - pinch)/0.05, 0, 1),  *)
(* which is 1 at pinch distance 0.02; at closure 1 the oral gain target is *)
(* 0 and the nasal gain target 0.7, at closure 0 they are 1 and 0; and of  *)
(* two successive bio ticks the one with the larger closure has the        *)
(* smaller or equal oral target and the larger or equal nasal target.      *)
C17_BioCrossFade ==
    [][ (TickStep /\ BioTicked(lastOp', calls', audio')) =>
          LET closure == closureOf(lastOp'.frame.pinchDist)
          IN  /\ mapper'.lastClosure = closure
              /\ \E i \in 1 .. Len(calls') :
                    calls'[i].op = "updateBio" /\ calls'[i].arg = closure
              /\ lastOp'.frame.pinchDist = 200 => closure = One
              /\ closure = One =>
                    (audio'.oralGain = 0 /\ audio'.nasalGain = (7 * One) \div 10
                       /\ audio'.nasalGain > One \div 2)
              /\ closure = 0 => (audio'.oralGain = One /\ audio'.nasalGain = 0)
              /\ audio'.oralGain >= 0 /\ audio'.oralGain <= One
              /\ audio'.nasalGain >= 0 /\ audio'.nasalGain <= (7 * One) \div 10
              /\ BioTicked(lastOp, calls, audio) =>
                    /\ closure >= mapper.lastClosure =>
                          (audio'.oralGain <= audio.oralGain
                             /\ audio'.nasalGain >= audio.nasalGain)
                    /\ closure <= mapper.lastClosure =>
                          (audio'.oralGain >= audio.oralGain
                             /\ audio'.nasalGain <= audio.nasalGain)
      ]_vars

\* C17 witness: a bio tick with pinch distance 0.02 after a bio tick with a
\* half-open mouth: the oral path is shut and the nasal path at 0.7
C17_Witness ==
    /\ BioTicked(lastOp, calls, audio)
    /\ lastOp.ticks >= 2
    /\ lastOp.frame.pinchDist = 200
    /\ mapper.lastClosure = One
    /\ audio.oralGain = 0
    /\ audio.nasalGain = (7 * One) \div 10
    /\ W("nasalGain", "setTargetAtTime") \in audio.log

\* the step is a tick that ran the articulatory branch
ArticulatoryTick == TickStep /\ HasCall(calls', "updateArticulatory")

\* the tick's updateArticulatory call carried the breath-onset trigger
FiredOnset(c) == \E i \in 1 .. Len(c) : c[i].op = "updateArticulatory" /\ c[i].energyTrigger

\* the breath level the claim gives for a forward tilt (pitch in thousandths)
breathOf(pitch) ==
    IF pitch >= 0 - 150 THEN 0
    ELSE IF pitch <= 0 - 400 THEN One
    ELSE ((0 - 150 - pitch) * One) \div 250

(* C18: lastBreathLevel is 0 at first, every processed articulatory tick   *)
(* stores its breath level in it and nothing else changes it, so it is the *)
(* breath level of the previous processed articulatory tick.  A tick       *)
(* raises the breath-onset trigger exactly when its breath level is > 0    *)
(* and the previous one was 0, and calls releaseEnergy exactly when its    *)
(* breath level is 0 and the previous one was > 0: an onset only from      *)
(* silence, a release only from breath, one onset for a sustained breath.  *)
C18_BreathEdges ==
    /\ mapper.lastBreathLevel = 0
    /\ [][ ArticulatoryTick =>
             LET level == breathOf(lastOp'.frame.pitch)
                 previous == mapper.lastBreathLevel
             IN  /\ mapper'.lastBreathLevel = level
                 /\ FiredOnset(calls') <=> (level > 0 /\ previous = 0)
                 /\ HasCall(calls', "releaseEnergy") <=> (level = 0 /\ previous > 0)
                 /\ (level > 0 /\ previous > 0) =>
                        (~FiredOnset(calls') /\ ~HasCall(calls', "releaseEnergy"))
         ]_vars
    /\ [][ ~ArticulatoryTick =>
             /\ mapper'.lastBreathLevel = mapper.lastBreathLevel
             /\ ~HasCall(calls', "releaseEnergy") ]_vars

\* C18 witness: the second tick of a sustained breath in a sounding
\* articulatory session: no onset, no release
C18_Witness ==
    /\ lastOp.op = "tick"
    /\ HasCall(calls, "updateArticulatory")
    /\ audio.currentPreset = "articulatory"
    /\ audio.energyEnvelope.isTriggered
    /\ breathOf(lastOp.frame.pitch) > 0
    /\ mapper.lastBreathLevel > 0
    /\ ~FiredOnset(calls)
    /\ ~HasCall(calls, "releaseEnergy")

(* C19: after a processed articulatory tick with breath level > 0 on an    *)
(* engine whose active preset is articulatory, the energy envelope is in   *)
(* the triggered state.                                                    *)
C19_OnsetNeverLost ==
    ( /\ lastOp.op = "tick"
      /\ HasCall(calls, "updateArticulatory")
      /\ breathOf(lastOp.frame.pitch) > 0
      /\ audio.audioContext
      /\ audio.currentPreset = "articulatory" )
    => audio.energyEnvelope.isTriggered

\* the topology a mode plays through: its own preset, or, for the two
\* vowel-only modes, the preset of the selected sound
TopologyOf(m) ==
    IF m.currentMode \in {"bio", "articulatory", "monkey"} THEN m.currentMode
    ELSE m.currentSound

(* C20: after every gesture tick of a started session the engine's active  *)
(* preset is the topology of the selected mode.                            *)
C20_ModeAgrees ==
    (lastOp.op = "tick" /\ audio.audioContext) => audio.currentPreset = TopologyOf(mapper)

-----------------------------------------------------------------------------
(* Specification of ConsonantDetector alone: detect applied to the hand    *)
(* states HandAnalyzer.analyze produces for frames that differ in the      *)
(* three thumb distances and in the set of extended fingers.               *)

Fingers == {"thumb", "index", "middle", "ring", "pinky"}

\* distances below, on and above the touch threshold 0.05
DetectFrames ==
    { [BaseFrame EXCEPT !.pinchDist = pd, !.thumbToMiddle = tm, !.thumbToRing = tr,
                        !.ext = e] :
      pd \in {200, 500, 1500}, tm \in {100, 500, 1000}, tr \in {100, 1000},
      e \in SUBSET Fingers }

DetectOp(fr) == [op |-> "detect", frame |-> fr, gesture |-> detect(analyze(fr, 0, fr.gap))]

DetectInit ==
    /\ lastOp = DetectOp(BaseFrame)
    /\ glottal = GlottalSource_new
    /\ envelope = EnergyEnvelope_new
    /\ now = 0
    /\ audio = AudioEngine_new
    /\ mapper = Mapper_new
    /\ calls = <<>>

Detect ==
    \E fr \in DetectFrames :
        /\ lastOp' = DetectOp(fr)
        /\ UNCHANGED <<glottal, envelope, now, audio, mapper, calls>>

SpecDetect == DetectInit /\ [][Detect]_vars

\* the finger-extension rules as the claim reads them: the exact set of
\* extended fingers of each pattern (the open hand leaves the thumb free)
ExtensionRules ==
    { [fingers |-> {"thumb", "index"}, type |-> "alveolar", manner |-> "approximant"],
      [fingers |-> {"index", "middle"}, type |-> "postalveolar", manner |-> "fricative"],
      [fingers |-> {"thumb", "pinky"}, type |-> "velar", manner |-> "approximant"],
      [fingers |-> {"index", "pinky"}, type |-> "alveolar", manner |-> "approximant"],
      [fingers |-> {"index"}, type |-> "alveolar", manner |-> "fricative"],
      [fingers |-> {"pinky"}, type |-> "velar", manner |-> "stop"],
      [fingers |-> {"index", "middle", "ring", "pinky"}, type |-> "glottal",
       manner |-> "fricative"] }

RuleMatches(rule, ext) ==
    IF rule.type = "glottal" THEN rule.fingers \subseteq ext ELSE rule.fingers = ext

\* closure of a touch at distance d (1/10000): max(0, 1 - d/0.05)
claimedClosure(d) == IF d >= 500 THEN 0 ELSE One - (d * One) \div 500

(* C21: detect is an ordered rule list in which the first matching rule    *)
(* wins.  A pinch gives bilabial whatever the other distances and flags    *)
(* are; without a pinch a thumb-middle touch gives labiodental even when   *)
(* the thumb touches the ring finger too; a thumb-ring touch comes next;   *)
(* both come before every finger-extension pattern; at most one extension  *)
(* pattern matches any set of extended fingers, and it gives the result;   *)
(* with no rule matching the result is type none, manner none, closure 0.  *)
C21_FirstRuleWins ==
    LET fr == lastOp.frame
        g == lastOp.gesture
        pinch == fr.pinchDist < 500
        middle == fr.thumbToMiddle < 500
        ring == fr.thumbToRing < 500
        matching == { rule \in ExtensionRules : RuleMatches(rule, fr.ext) }
    IN  /\ pinch => (g.type = "bilabial" /\ g.manner = "stop"
                       /\ g.closure = claimedClosure(fr.pinchDist))
        /\ (~pinch /\ middle) =>
               (g.type = "labiodental" /\ g.manner = "fricative"
                  /\ g.closure = claimedClosure(fr.thumbToMiddle))
        /\ (~pinch /\ ~middle /\ ring) =>
               (g.type = "dental" /\ g.manner = "fricative"
                  /\ g.closure = claimedClosure(fr.thumbToRing))
        /\ \A e \in SUBSET Fingers :
               Cardinality({ rule \in ExtensionRules : RuleMatches(rule, e) }) <= 1
        /\ (~pinch /\ ~middle /\ ~ring) =>
               /\ \A rule \in matching : g.type = rule.type /\ g.manner = rule.manner
               /\ matching = {} =>
                      (g.type = "none" /\ g.manner = "none" /\ g.closure = 0
                         /\ ~g.isComplete /\ g.phoneme = "")

\* C21 witness: a pinch while the thumb also touches the middle and the ring
\* finger and the extended fingers form the L shape
C21_Witness ==
    /\ lastOp.op = "detect"
    /\ lastOp.frame.pinchDist < 500
    /\ lastOp.frame.thumbToMiddle < 500
    /\ lastOp.frame.thumbToRing < 500
    /\ lastOp.frame.ext = {"thumb", "index"}
    /\ lastOp.gesture.type = "bilabial"

-----------------------------------------------------------------------------
(* Specification of the ergonomic (monkey) mode of the engine alone: an    *)
(* initialised engine on the monkey preset, updated tick after tick either *)
(* with the gesture ConsonantDetector finds in a frame or with an explicit *)
(* phoneme of the table at a closure of 0, 0.5 or 1.                       *)

\* gestures with an explicit phoneme: every entry of the table, a symbol
\* the table does not have, and a place without a default phoneme
ButtonGestures ==
    { Gesture(CONSONANTS[ph].place, c, c = One, CONSONANTS[ph].manner, ph) :
        ph \in DOMAIN CONSONANTS, c \in {0, One \div 2, One} }
    \cup { Gesture("alveolar", One \div 2, FALSE, "stop", "x"),
           Gesture("palatal", One \div 2, FALSE, "approximant", "") }

\* frames with and without a pinch, a thumb-middle and a thumb-ring touch,
\* for the finger patterns of the detector, no finger and all fingers
MonkeyFrames ==
    { [BaseFrame EXCEPT !.pinchDist = pd, !.thumbToMiddle = tm, !.thumbToRing = tr,
                        !.ext = e] :
      pd \in {200, 1500}, tm \in {100, 1000}, tr \in {100, 1000},
      e \in { {}, {"thumb", "index"}, {"index", "middle"}, {"thumb", "pinky"},
              {"index", "pinky"}, {"index"}, {"pinky"},
              {"index", "middle", "ring", "pinky"}, Fingers } }

MaxMonkeyTicks == 2

MonkeyInit ==
    /\ audio = setPreset(init(AudioEngine_new), "monkey")
    /\ lastOp = [op |-> "setPreset", src |-> "none", frame |-> BaseFrame, n |-> 0,
                 state |-> monkeyStateOf(analyze(BaseFrame, 0, BaseFrame.gap),
                                         Gesture("none", 0, FALSE, "none", ""))]
    /\ mapper = Mapper_new
    /\ calls = <<>>
    /\ now = 0
    /\ glottal = GlottalSource_new
    /\ envelope = EnergyEnvelope_new

\* a tick on a frame of the camera
MonkeyDetected ==
    \E fr \in MonkeyFrames :
        LET hand == analyze(fr, 0, fr.gap)
            state == monkeyStateOf(hand, detect(hand))
        IN  /\ lastOp.n < MaxMonkeyTicks
            /\ audio' = updateMonkey(ClearLogs(audio), state)
            /\ lastOp' = [op |-> "updateMonkey", src |-> "detect", frame |-> fr,
                          n |-> lastOp.n + 1, state |-> state]
            /\ UNCHANGED <<mapper, calls, now, glottal, envelope>>

\* a tick with an explicit phoneme
MonkeyButton ==
    \E g \in ButtonGestures :
        LET state == monkeyStateOf(analyze(BaseFrame, 0, BaseFrame.gap), g)
        IN  /\ lastOp.n < MaxMonkeyTicks
            /\ audio' = updateMonkey(ClearLogs(audio), state)
            /\ lastOp' = [op |-> "updateMonkey", src |-> "button", frame |-> BaseFrame,
                          n |-> lastOp.n + 1, state |-> state]
            /\ UNCHANGED <<mapper, calls, now, glottal, envelope>>

SpecMonkey == MonkeyInit /\ [][MonkeyDetected \/ MonkeyButton]_vars

-----------------------------------------------------------------------------
(* Properties of the ergonomic mode (SpecMonkey).                          *)

\* the finger patterns of the approximant rules and the phoneme of each
ApproximantPhoneme ==
    [ e \in { {"thumb", "index"}, {"thumb", "pinky"}, {"index", "pinky"} } |->
        IF e = {"thumb", "index"} THEN "l"
        ELSE IF e = {"thumb", "pinky"} THEN "w" ELSE "r" ]

\* the table entry a monkey tick matched, by the symbol the claim gives:
\* the explicit phoneme, else the default of the place; "" when unmatched
matchedPhoneme(gesture) ==
    LET defaults == [ bilabial |-> "m", labiodental |-> "f", dental |-> "th",
                      alveolar |-> "s", postalveolar |-> "sh", velar |-> "k",
                      glottal |-> "h" ]
        ph == IF gesture.phoneme # "" THEN gesture.phoneme
              ELSE IF gesture.type \in DOMAIN defaults THEN defaults[gesture.type]
              ELSE ""
    IN  IF gesture.type # "none" /\ ph \in DOMAIN CONSONANTS THEN ph ELSE ""

\* the vowel formants of a monkey tick, before any consonant
vowelFormants(state, size) ==
    [ f1 |-> Mul(250 + (state.vowelHeight * 600) \div One, size),
      f2 |-> Mul(800 + (state.vowelBackness * 1600) \div One, size),
      f3 |-> Mul(2200 + (state.vowelBackness * 500) \div One, size) ]

(* C22: every entry of the phoneme table with manner approximant has a     *)
(* formant target and no entry of another manner has one; the detector     *)
(* sets an explicit phoneme exactly when one of its approximant rules (l,   *)
(* w, r) gives the gesture; and after a monkey tick the formants are the   *)
(* vowel's own unless the matched entry is an approximant, in which case   *)
(* they are blended toward the entry's target by the closure.              *)
C22_ApproximantTargets ==
    /\ \A ph \in DOMAIN CONSONANTS :
           CONSONANTS[ph].hasTarget <=> CONSONANTS[ph].manner = "approximant"
    /\ lastOp.src = "detect" =>
           LET fr == lastOp.frame
               g == lastOp.state.consonant
               touch == fr.pinchDist < 500 \/ fr.thumbToMiddle < 500
                           \/ fr.thumbToRing < 500
               approximantRule == ~touch /\ fr.ext \in DOMAIN ApproximantPhoneme
           IN  /\ g.phoneme # "" <=> approximantRule
               /\ approximantRule =>
                      (g.phoneme = ApproximantPhoneme[fr.ext] /\ g.manner = "approximant")
    /\ lastOp.op = "updateMonkey" =>
           LET st == lastOp.state
               ph == matchedPhoneme(st.consonant)
               size == audio.voiceSizeMultiplier
               vowel == vowelFormants(st, size)
               c == st.consonant.closure
               toward(f, target) == (f * (One - c) + Mul(target, size) * c) \div One
           IN  IF ph # "" /\ CONSONANTS[ph].manner = "approximant"
               THEN /\ audio.f1 = toward(vowel.f1, CONSONANTS[ph].targetFormants.f1)
                    /\ audio.f2 = toward(vowel.f2, CONSONANTS[ph].targetFormants.f2)
                    /\ audio.f3 = toward(vowel.f3, CONSONANTS[ph].targetFormants.f3)
               ELSE audio.f1 = vowel.f1 /\ audio.f2 = vowel.f2 /\ audio.f3 = vowel.f3

\* C22 witness: the detector's L shape moved the formants off the vowel's,
\* after a tick on a fricative that left them alone
C22_Witness ==
    /\ lastOp.op = "updateMonkey"
    /\ lastOp.src = "detect"
    /\ lastOp.state.consonant.phoneme = "l"
    /\ audio.f2 # vowelFormants(lastOp.state, audio.voiceSizeMultiplier).f2
    /\ audio.fricativeType = "bandpass"

\* the oral gain target of a matched entry at a closure: the entry's oral
\* gain, floored at 0.2, reached in proportion to the closure
flooredOral(entry, closure) == One - Mul(closure, One - Max(entry.oralGain, 200))

C25_NoLatch ==
    [][ (lastOp'.op = "updateMonkey" /\ lastOp'.n = lastOp.n + 1
           /\ matchedPhoneme(lastOp'.state.consonant) = "")
        => /\ audio'.oralGain = One
           /\ audio'.nasalGain = 0
           /\ audio'.fricativeGain = 0
           /\ { W("oralGain", "setTargetAtTime"), W("nasalGain", "setTargetAtTime"),
                W("fricativeGain", "setTargetAtTime") } \subseteq audio'.log ]_vars

\* C25 witness: a tick without consonant right after a tick on a fricative,
\* whose filter setting is still there while the gains are back at rest
C25_Witness ==
    /\ lastOp.op = "updateMonkey"
    /\ lastOp.n = 2
    /\ lastOp.state.consonant.type = "none"
    /\ audio.fricativeType = "bandpass"
    /\ audio.oralGain = One /\ audio.nasalGain = 0 /\ audio.fricativeGain = 0

-----------------------------------------------------------------------------
(* The ergonomic mode within a session (Spec).                             *)

(* C26: after a gesture tick in monkey mode, palm inside the active zone,  *)
(* the voicing amount is breath^0.6 and the output level breath^1.3 of the *)
(* frame's breath amount, and the only write the tick made to the master   *)
(* gain is updateMonkey's, toward that output level: no write to the       *)
(* master gain takes its value from the pinch distance.                    *)
C26_BreathOnly ==
    (lastOp.op = "tick" /\ audio.currentPreset = "monkey" /\ HasCall(calls, "updateMonkey")) =>
        LET breath == analyze(lastOp.frame, 0, lastOp.frame.gap).breathAmount
        IN  /\ audio.glottalSource.voicingAmount = Pow06(breath)
            /\ audio.glottalSource.outputGain = Pow13(breath)
            /\ \A w \in Writes(audio) :
                   w[1] = "masterGain" => w = W("masterGain", "setTargetAtTime")
            /\ ~HasCall(calls, "setVolume")

-----------------------------------------------------------------------------
(* Specification of the abstract thumb-distance mode alone: an initialised *)
(* engine on the super-abstract preset, updated with the four thumb-to-    *)
(* fingertip distances at 0.01, 0.03, 0.05 and 0.1 in every combination.   *)

AbstractInit ==
    /\ audio = setPreset(init(AudioEngine_new), "super-abstract")
    /\ lastOp = [op |-> "setPreset", state |-> [thumbToIndex |-> 1000]]
    /\ mapper = Mapper_new
    /\ calls = <<>>
    /\ now = 0
    /\ glottal = GlottalSource_new
    /\ envelope = EnergyEnvelope_new

AbstractUpdate ==
    \E ti \in {100, 300, 500, 1000}, tm \in {100, 300, 500, 1000},
       tr \in {100, 300, 500, 1000}, tp \in {100, 300, 500, 1000} :
        LET state == [ breathAmount |-> One, pitchMultiplier |-> One,
                       vowelHeight |-> One \div 2, vowelBackness |-> One \div 2,
                       thumbToIndex |-> ti, thumbToMiddle |-> tm,
                       thumbToRing |-> tr, thumbToPinky |-> tp ]
        IN  /\ audio' = updateSuperAbstract(ClearLogs(audio), state)
            /\ lastOp' = [op |-> "updateSuperAbstract", state |-> state]
            /\ UNCHANGED <<mapper, calls, now, glottal, envelope>>

SpecAbstract == AbstractInit /\ [][AbstractUpdate]_vars

\* the four distances of an update in the order the synth scans them, with
\* the phoneme of each finger
ThumbDistances(state) ==
    << [d |-> state.thumbToIndex, phoneme |-> "n"],
       [d |-> state.thumbToMiddle, phoneme |-> "k"],
       [d |-> state.thumbToRing, phoneme |-> "s"],
       [d |-> state.thumbToPinky, phoneme |-> "m"] >>

(* C27: among the four thumb-to-fingertip distances of an update only      *)
(* those strictly below 0.05 are candidates; the gains written are those   *)
(* of one candidate alone, the one at minimum distance and on equal        *)
(* distances the first in the order index, middle, ring, pinky, at the     *)
(* intensity (0.05 - distance)/0.05; with no candidate the targets are     *)
(* oral 1, nasal 0 and fricative 0.                                        *)
C27_SingleNearest ==
    lastOp.op = "updateSuperAbstract" =>
        LET td == ThumbDistances(lastOp.state)
            candidates == { i \in 1 .. 4 : td[i].d < 500 }
            synth == audio.superAbstractSynth
        IN  IF candidates = {}
            THEN synth.oralGain = One /\ synth.nasalGain = 0 /\ synth.fricativeGain = 0
            ELSE LET i == CHOOSE c \in candidates :
                              \A o \in candidates :
                                  td[c].d < td[o].d \/ (td[c].d = td[o].d /\ c <= o)
                     entry == CONSONANTS[td[i].phoneme]
                     intensity == ((500 - td[i].d) * One) \div 500
                 IN  /\ One * synth.oralGain = One * One - intensity * (One - entry.oralGain)
                     /\ One * synth.nasalGain = intensity * entry.nasalGain
                     /\ synth.fricativeGain
                          = IF entry.manner = "fricative" THEN (intensity * 8) \div 10 ELSE 0

\* C27 witness: the thumb as near to the middle finger as to the pinky, the
\* ring finger below the threshold but farther: the middle finger's k alone
\* is applied, with no nasal and no noise
C27_Witness ==
    /\ lastOp.op = "updateSuperAbstract"
    /\ lastOp.state.thumbToIndex = 500
    /\ lastOp.state.thumbToMiddle = 100
    /\ lastOp.state.thumbToRing = 300
    /\ lastOp.state.thumbToPinky = 100
    /\ audio.superAbstractSynth.oralGain = 200
    /\ audio.superAbstractSynth.nasalGain = 0
    /\ audio.superAbstractSynth.fricativeGain = 0

-----------------------------------------------------------------------------
(* The engine's use of its one energy envelope (SpecEngine).               *)

\* the envelope e has just been triggered at time t with the given attack
\* and decay (ms): the fields hold them and the ramps in flight end at
\* t + attack and t + attack + decay, no other ramp being scheduled
InFlight(e, t, attack, decay) ==
    /\ e.attack = attack /\ e.decay = decay
    /\ e.isTriggered
    /\ W("envelope.gain", "cancelScheduledValues") \in e.log
    /\ { <<x.k, x.v, x.t>> : x \in { e.gain.ev[i] : i \in 1 .. Len(e.gain.ev) } }
         \ { <<"setValueAtTime", v, t>> : v \in 0 .. One }
       = { <<"linearRampToValueAtTime", One, t + attack>>,
           <<"exponentialRampToValueAtTime", TriggerFloor, t + attack + decay>> }

(* C28: an updateArticulatory on the articulatory preset runs the engine's *)
(* one energy envelope with attack 1 ms and decay 50 ms for a plosive      *)
(* trigger and with attack 20 ms and decay 300 ms for a breath onset, the  *)
(* times of the ramps being those of the profile just written; with both   *)
(* flags set the breath profile is the one in flight afterwards, the       *)
(* plosive ramps having been cancelled; with neither the envelope is left  *)
(* alone.                                                                  *)
C28_SharedEnvelope ==
    [][ (EngineCall("updateArticulatory") /\ audio.currentPreset = "articulatory")
        => \A state \in ArticulatoryInputs :
             \A params \in mapStateToAcoustic(state) :
               audio' = updateArticulatory(ClearLogs(audio), state, params, now)
               => LET e == audio'.energyEnvelope
                  IN  /\ state.energyTrigger => InFlight(e, now, 20, 300)
                      /\ (state.plosiveTrigger /\ ~state.energyTrigger)
                             => InFlight(e, now, 1, 50)
                      /\ (~state.plosiveTrigger /\ ~state.energyTrigger)
                             => e = ClearLog(audio.energyEnvelope)
                      /\ state.plosiveTrigger
                             <=> W("aspirationGain", "setValueAtTime") \in audio'.log ]_vars

\* C28 witness: a call with both flags set, made after init and the preset
\* change: the burst is written and the breath profile is the one in flight
C28_Witness ==
    /\ lastOp.op = "updateArticulatory"
    /\ lastOp.prev = "articulatory"
    /\ lastOp.n >= 3
    /\ W("aspirationGain", "setValueAtTime") \in audio.log
    /\ InFlight(audio.energyEnvelope, now, 20, 300)

-----------------------------------------------------------------------------
(* The resting level of the envelope (SpecEnv).                            *)

\* the envelope is not triggered, none of its ramps is still to end and no
\* setLevel approach is on its timeline
Idle ==
    /\ ~envelope.isTriggered
    /\ \A i \in 1 .. Len(envelope.gain.ev) :
           envelope.gain.ev[i].t <= now /\ envelope.gain.ev[i].k # "setTargetAtTime"

\* a release has been made and has run to its end
Released == Idle /\ envelope.gain.ev # <<>>

-----------------------------------------------------------------------------
(* The engine before and after init (SpecEngine).                          *)

\* the public operations that are to do nothing before init
GuardedOps ==
    { "setPreset", "setPitch", "setVolume", "setNoise", "setFormants",
      "triggerEnergy", "releaseEnergy", "updateBio", "updateArticulatory",
      "updateMonkey", "updateSuperAbstract" }

(* C30: before init has run, setPreset, setPitch, setVolume, setNoise,     *)
(* setFormants, triggerEnergy, releaseEnergy and the four mode updates     *)
(* leave the engine exactly as it was and write no parameter; setPreset    *)
(* does not record the preset it was asked for.  An init on an engine that *)
(* is initialised already changes nothing either: graph, parameters and    *)
(* active preset stay.                                                     *)
C30_GuardedBeforeInit ==
    [][ /\ (~audio.audioContext /\ lastOp'.op \in GuardedOps)
            => (audio' = audio /\ Writes(audio') = {} /\ audio'.currentPreset = "raw")
        /\ (audio.audioContext /\ EngineCall("init"))
            => (ClearLogs(audio') = ClearLogs(audio) /\ Writes(audio') = {}) ]_vars

\* C30 witness: a setPreset made before init, after which the engine is
\* still the one the constructor left
C30_Witness ==
    /\ lastOp.op = "setPreset"
    /\ ~lastOp.inited
    /\ ~audio.audioContext
    /\ audio.currentPreset = "raw"
    /\ audio.edges = {}

==========================================================================
